---------------------------- MODULE Spec2Model ----------------------------
(***************************************************************************)
(* Model of the kent-core sensor service.                                  *)
(*                                                                         *)
(*   SpecStore : the Exchange Store at file level (sensor_service/utils.py)*)
(*               save_file_atomic against concurrent load_current_data.    *)
(*   SpecServe : the Producer cycle (sensor_service/reader.py) and the     *)
(*               Consumer request handler (sensor_service/listener.py)     *)
(*               over the three artifacts, with wall-clock time.           *)
(*   SpecSup   : the Supervisor (main.py): main thread, monitor thread,    *)
(*               signal handlers and the child processes, with timers.     *)
(*                                                                         *)
(*   SpecSupExc: SpecSup with exceptions in a poll of the monitor.         *)
(*   SpecRun   : the Producer process with its pool of two workers and the *)
(*               Consumer process, from construction to exit, with timers. *)
(*   SpecTransform : LiDARReader.read_data on given ranging data.          *)
(*                                                                         *)
(* Further specifications are introduced with the functions they apply.    *)
(* The specifications share the variable list; each keeps the variables of *)
(* the others at their initial values.                                     *)
(***************************************************************************)
EXTENDS Integers, Sequences, FiniteSets, TLC

(***************************************************************************)
(* Bounds of the model.                                                    *)
(***************************************************************************)
MaxLen == 2
MaxWrites == 1

\* Characters of a file: a digit and white space.
Chars == {"1", " "}

RECURSIVE SeqsUpTo(_)
SeqsUpTo(n) ==
    IF n = 0 THEN {<< >>}
    ELSE LET S == SeqsUpTo(n - 1)
         IN  S \cup {Append(s, c) : s \in {t \in S : Len(t) = n - 1}, c \in Chars}

Contents == SeqsUpTo(MaxLen)

TIMESTAMP_FILE == "timestamp.txt"
CURRENT_IMAGE_FILE == "current.jpg"
CURRENT_CSV_FILE == "current.csv"
Artifacts == {TIMESTAMP_FILE, CURRENT_IMAGE_FILE, CURRENT_CSV_FILE}

\* Two concurrent callers of load_current_data (they share nothing but the
\* directory).
Readers == {"r1", "r2"}

\* No inode: the path does not exist / no file is open.
NoFile == 0
MaxInodes == 3 + MaxWrites

VARIABLES
    \* ---- SpecStore: the directory, its inodes, one writer, the readers
    files,      \* path -> inode linked under that name, or NoFile
    inodes,     \* inode -> content (a sequence of characters)
    nInodes,    \* inodes allocated so far
    calls,      \* the (path, data) arguments of the save_file_atomic calls made
    wr,         \* the writer: its position in save_file_atomic and its locals
    ld,         \* reader -> its position in load_current_data and its locals
    \* ---- SpecServe: the clock, the three artifacts, Producer and handlers
    now,        \* time.time(), in seconds
    store,      \* artifact -> the cycle that wrote it (0: no file) and its value
    prod,       \* the Producer: its position in SensorReader.run and its locals
    hd,         \* client -> the position of SensorDataHandler.handle, its locals
    \* ---- SpecSup: the Supervisor, its monitor thread and the child processes
    shutdown,   \* shutdown_event (multiprocessing.Event, shared by fork)
    procs,      \* Process object -> its role and the state of its process
    nProcs,     \* Process objects created so far
    main,       \* main(): position, the two Process handles, timer, exit code
    mon,        \* monitor_processes: position, its own two handles, timer
    tsWriter,   \* the process that wrote timestamp.txt last (0: not written)
    env,        \* what has happened from outside: signals and crashes
    downFor,    \* role -> seconds for which no process of the role is alive
    \* ---- one call of a function on given arguments (SpecFrame, ...)
    fn,         \* the arguments, the position in the function, its results
    \* ---- SpecRun: one Producer process and one Consumer process, with timers
    rd,         \* run_reader_process: position, sensor flags, pool, futures
    ls          \* run_listener_process: position, the serve_forever thread

storeVars == <<files, inodes, nInodes, calls, wr, ld>>
serveVars == <<now, store, prod, hd>>
supVars == <<shutdown, procs, nProcs, main, mon, tsWriter, env, downFor>>
fnVars == <<fn>>
runVars == <<rd, ls>>
vars == <<storeVars, serveVars, supVars, fnVars, runVars>>

(***************************************************************************)
(* str.strip() and float(): white space is removed at both ends, what is   *)
(* left must be a non-empty run of digits.                                 *)
(***************************************************************************)
Whitespace == {" ", "\n"}

RECURSIVE LStrip(_)
LStrip(s) == IF s # << >> /\ Head(s) \in Whitespace THEN LStrip(Tail(s)) ELSE s

RECURSIVE RStrip(_)
RStrip(s) ==
    IF s # << >> /\ s[Len(s)] \in Whitespace
    THEN RStrip(SubSeq(s, 1, Len(s) - 1)) ELSE s

Strip(s) == RStrip(LStrip(s))

IsNumber(s) == s # << >> /\ \A i \in 1 .. Len(s) : s[i] = "1"

RECURSIVE Decimal(_)
Decimal(s) ==
    IF s = << >> THEN 0 ELSE 10 * Decimal(SubSeq(s, 1, Len(s) - 1)) + 1

\* float(f.read().strip()): [ok, value]; ok = FALSE stands for ValueError.
ParseFloat(s) ==
    IF IsNumber(Strip(s)) THEN [ok |-> TRUE, value |-> Decimal(Strip(s))]
    ELSE [ok |-> FALSE, value |-> 0]

(***************************************************************************)
(* save_file_atomic(file_path, data)                                       *)
(***************************************************************************)
WriterIdle ==
    [pc |-> "idle", path |-> TIMESTAMP_FILE, data |-> << >>, temp |-> NoFile,
     ret |-> "none"]

\* The data of a call: any text for the timestamp, an opaque blob of the
\* longest length for the image and the CSV document.
Payloads(p) ==
    IF p = TIMESTAMP_FILE THEN Contents ELSE {[i \in 1 .. MaxLen |-> "1"]}

\* The call: any artifact path, any data.
SaveBegin ==
    /\ wr.pc \in {"idle", "done"}
    /\ Len(calls) < MaxWrites
    /\ \E p \in Artifacts : \E d \in Payloads(p) :
          /\ wr' = [pc |-> "create", path |-> p, data |-> d, temp |-> NoFile,
                    ret |-> "none"]
          /\ calls' = Append(calls, [path |-> p, data |-> d])
    /\ UNCHANGED <<files, inodes, nInodes, ld, serveVars, supVars, fnVars, runVars>>

\* A mutant: the data is written straight to the final name (open(path, "wb")).
SaveCreateInPlace ==
    /\ wr.pc = "create"
    /\ nInodes' = nInodes + 1
    /\ inodes' = [inodes EXCEPT ![nInodes + 1] = << >>]
    /\ files' = [files EXCEPT ![wr.path] = nInodes + 1]
    /\ wr' = [wr EXCEPT !.pc = "write", !.temp = nInodes + 1]
    /\ UNCHANGED <<calls, ld, serveVars, supVars, fnVars, runVars>>

\* tempfile.NamedTemporaryFile(dir=dirname, delete=False): a new empty file
\* under a name of its own in the same directory.
SaveCreateTemp ==
    /\ wr.pc = "create"
    /\ nInodes' = nInodes + 1
    /\ inodes' = [inodes EXCEPT ![nInodes + 1] = << >>]
    /\ wr' = [wr EXCEPT !.pc = "write", !.temp = nInodes + 1]
    /\ UNCHANGED <<files, calls, ld, serveVars, supVars, fnVars, runVars>>

\* temp_file.write(data): the bytes reach the file one at a time.
SaveWrite ==
    /\ wr.pc = "write"
    /\ Len(inodes[wr.temp]) < Len(wr.data)
    /\ inodes' = [inodes EXCEPT
                    ![wr.temp] = Append(@, wr.data[Len(inodes[wr.temp]) + 1])]
    /\ UNCHANGED <<files, nInodes, calls, wr, ld, serveVars, supVars, fnVars, runVars>>

\* Leaving the with block: the file is closed, temp_path is bound.
SaveClose ==
    /\ wr.pc = "write"
    /\ Len(inodes[wr.temp]) = Len(wr.data)
    /\ wr' = [wr EXCEPT !.pc = "move"]
    /\ UNCHANGED <<files, inodes, nInodes, calls, ld, serveVars, supVars, fnVars, runVars>>

\* shutil.move(temp_path, file_path): a rename within one directory.
SaveMove ==
    /\ wr.pc = "move"
    /\ files' = [files EXCEPT ![wr.path] = wr.temp]
    /\ wr' = [wr EXCEPT !.pc = "done", !.ret = "True"]
    /\ UNCHANGED <<inodes, nInodes, calls, ld, serveVars, supVars, fnVars, runVars>>

\* except Exception: at makedirs or the creation of the temporary file (no
\* temp_path yet), or at the rename (temp_path bound: the file is removed).
\* A failure inside the with block leaves temp_path unbound: the partly
\* written temporary file stays in the directory.
SaveFail ==
    /\ wr.pc \in {"create", "write", "move"}
    /\ wr' = [wr EXCEPT !.pc = "done", !.ret = "False"]
    /\ inodes' = IF wr.pc = "move" THEN [inodes EXCEPT ![wr.temp] = << >>]
                 ELSE inodes
    /\ UNCHANGED <<files, nInodes, calls, ld, serveVars, supVars, fnVars, runVars>>

(***************************************************************************)
(* load_current_data(data_dir)                                             *)
(***************************************************************************)
Nil == <<"nil">>

ReaderIdle ==
    [pc |-> "open_ts", fd |-> NoFile, rawts |-> Nil, ts |-> 0, img |-> Nil,
     csv |-> Nil, ret |-> "none"]

\* The artifact a position of load_current_data is about.
PathAt(pc) ==
    CASE pc \in {"open_ts", "read_ts"} -> TIMESTAMP_FILE
      [] pc \in {"open_img", "read_img"} -> CURRENT_IMAGE_FILE
      [] OTHER -> CURRENT_CSV_FILE

ReadPcOf(pc) ==
    CASE pc = "open_ts" -> "read_ts"
      [] pc = "open_img" -> "read_img"
      [] OTHER -> "read_csv"

\* A mutant: a missing image is read as no bytes instead of raising.
LoadOpenLenient(r) ==
    /\ ld[r].pc \in {"open_ts", "open_img", "open_csv"}
    /\ IF files[PathAt(ld[r].pc)] = NoFile
       THEN IF ld[r].pc = "open_img"
            THEN ld' = [ld EXCEPT ![r].pc = "open_csv", ![r].img = << >>]
            ELSE ld' = [ld EXCEPT ![r].pc = "done", ![r].ret = "None"]
       ELSE ld' = [ld EXCEPT ![r].pc = ReadPcOf(ld[r].pc),
                             ![r].fd = files[PathAt(ld[r].pc)]]
    /\ UNCHANGED <<files, inodes, nInodes, calls, wr, serveVars, supVars, fnVars, runVars>>

\* open(path): FileNotFoundError when the name does not exist (the except
\* branch returns None); otherwise the file behind the name is held open.
LoadOpen(r) ==
    /\ ld[r].pc \in {"open_ts", "open_img", "open_csv"}
    /\ IF files[PathAt(ld[r].pc)] = NoFile
       THEN ld' = [ld EXCEPT ![r].pc = "done", ![r].ret = "None"]
       ELSE ld' = [ld EXCEPT ![r].pc = ReadPcOf(ld[r].pc),
                             ![r].fd = files[PathAt(ld[r].pc)]]
    /\ UNCHANGED <<files, inodes, nInodes, calls, wr, serveVars, supVars, fnVars, runVars>>

\* f.read() on the open file; for the timestamp, float(...strip()).
LoadRead(r) ==
    /\ ld[r].pc \in {"read_ts", "read_img", "read_csv"}
    /\ LET c == inodes[ld[r].fd]
       IN  CASE ld[r].pc = "read_ts" ->
                  IF ParseFloat(c).ok
                  THEN ld' = [ld EXCEPT ![r].pc = "open_img", ![r].rawts = c,
                                        ![r].ts = ParseFloat(c).value,
                                        ![r].fd = NoFile]
                  ELSE ld' = [ld EXCEPT ![r].pc = "done", ![r].rawts = c,
                                        ![r].ret = "None", ![r].fd = NoFile]
             [] ld[r].pc = "read_img" ->
                  ld' = [ld EXCEPT ![r].pc = "open_csv", ![r].img = c,
                                   ![r].fd = NoFile]
             [] OTHER ->
                  ld' = [ld EXCEPT ![r].pc = "done", ![r].csv = c,
                                   ![r].ret = "Triple", ![r].fd = NoFile]
    /\ UNCHANGED <<files, inodes, nInodes, calls, wr, serveVars, supVars, fnVars, runVars>>

(***************************************************************************)
(* Producer and Consumer over the three artifacts (SpecServe).  Each       *)
(* artifact is written and read as a whole (save_file_atomic, C1); an      *)
(* artifact is the number of the Producer cycle that wrote it, 0 for no    *)
(* file, with the timestamp's value or the kind of CSV document.           *)
(***************************************************************************)
MaxTicks == 2
MaxCycles == 2

MAX_DATA_AGE == 5
PROTOCOL_GET_DATA_CMD == "GET_DATA"

Clients == {"c1"}

\* time.time() never returns 0: the clock starts at 1.  It is observed every
\* MAX_DATA_AGE seconds: a timestamp is 0, MAX_DATA_AGE (the boundary), or
\* more seconds old.
StartTime == MAX_DATA_AGE - MAX_DATA_AGE + 1
TickSeconds == MAX_DATA_AGE
MaxTime == StartTime + MaxTicks * TickSeconds

EmptyStore ==
    [ts |-> [cyc |-> 0, val |-> 0], csv |-> [cyc |-> 0, kind |-> "none"],
     img |-> [cyc |-> 0]]

\* What Future.result(timeout=5) gives for one source: the value the source
\* returned (data, or None after a failure the source caught itself), or an
\* exception (TimeoutError after 5 s, or one the source let escape).
FutureOutcomes == {"data", "None", "raised"}

\* What save_data did for each artifact: nothing yet, a write that succeeded
\* or failed, no write because the image is missing or format_csv failed.
NothingWritten == [ts |-> "none", csv |-> "none", img |-> "none"]

ProducerIdle ==
    [pc |-> "top", cycle |-> 0, ts |-> 0, lidar |-> "None", image |-> "None",
     success |-> TRUE, lidar_future |-> "pending", camera_future |-> "pending",
     wrote |-> NothingWritten]

HandlerIdle ==
    [pc |-> "idle", raw |-> << >>, req |-> "none", data |-> "none", ts |-> 0, tsc |-> 0,
     img |-> 0, csv |-> 0, chkNow |-> 0, resp |-> "none", exc |-> "none",
     sendFailed |-> FALSE, sent |-> << >>, sentTs |-> 0]

ServeQuiet ==
    /\ now = StartTime
    /\ store = EmptyStore
    /\ prod = ProducerIdle
    /\ hd = [c \in Clients |-> HandlerIdle]

\* The wall clock advances.
Tick ==
    /\ now + TickSeconds <= MaxTime
    /\ now' = now + TickSeconds
    /\ UNCHANGED <<store, prod, hd, storeVars, supVars, fnVars, runVars>>

(***************************************************************************)
(* SensorReader.run, read_sensors_parallel, save_data                      *)
(***************************************************************************)
\* while not shutdown_event.is_set(): iteration += 1; both reads are
\* submitted and the cycle's timestamp is taken (read_sensors_parallel).
ProdDispatch ==
    /\ prod.pc = "top"
    /\ prod.cycle < MaxCycles
    /\ prod' = [pc |-> "join", cycle |-> prod.cycle + 1, ts |-> now,
                lidar |-> "None", image |-> "None", success |-> TRUE,
                lidar_future |-> "pending", camera_future |-> "pending",
                wrote |-> NothingWritten]
    /\ UNCHANGED <<now, store, hd, storeVars, supVars, fnVars, runVars>>

\* lidar_future.result(timeout=5), camera_future.result(timeout=5): each
\* source returns data or None (read_data and capture_image return None on
\* failure); a result that times out or raises gives (None, None, None).
ProdJoin ==
    /\ prod.pc = "join"
    /\ \E l \in FutureOutcomes, i \in FutureOutcomes :
          IF l = "raised" \/ i = "raised"
          THEN prod' = [prod EXCEPT !.pc = "sleep", !.ts = 0,
                                    !.lidar_future = l, !.camera_future = i]
          ELSE prod' = [prod EXCEPT !.pc = "save_ts", !.lidar = l, !.image = i,
                                    !.lidar_future = l, !.camera_future = i]
    /\ UNCHANGED <<now, store, hd, storeVars, supVars, fnVars, runVars>>

\* A mutant: a timestamp that cannot be saved ends save_data.
ProdSaveTsAborts ==
    /\ prod.pc = "save_ts"
    /\ \/ /\ store' = [store EXCEPT !.ts = [cyc |-> prod.cycle, val |-> prod.ts]]
          /\ prod' = [prod EXCEPT !.pc = "save_csv", !.wrote.ts = "ok"]
       \/ /\ prod' = [prod EXCEPT !.pc = "sleep", !.success = FALSE,
                                  !.wrote.ts = "failed"]
          /\ UNCHANGED store
    /\ UNCHANGED <<now, hd, storeVars, supVars, fnVars, runVars>>

\* save_text_atomic(timestamp_path, str(timestamp)): written, or failed.
ProdSaveTs ==
    /\ prod.pc = "save_ts"
    /\ \/ /\ store' = [store EXCEPT !.ts = [cyc |-> prod.cycle, val |-> prod.ts]]
          /\ prod' = [prod EXCEPT !.pc = "save_csv", !.wrote.ts = "ok"]
       \/ /\ prod' = [prod EXCEPT !.pc = "save_csv", !.success = FALSE,
                                  !.wrote.ts = "failed"]
          /\ UNCHANGED store
    /\ UNCHANGED <<now, hd, storeVars, supVars, fnVars, runVars>>

\* The CSV document of the matrix (format_csv may fail: nothing is written),
\* or the placeholder document when lidar_data is None; written, or failed.
ProdSaveCsv ==
    /\ prod.pc = "save_csv"
    /\ \/ /\ store' = [store EXCEPT
                         !.csv = [cyc |-> prod.cycle,
                                  kind |-> IF prod.lidar = "None"
                                           THEN "placeholder" ELSE "matrix"]]
          /\ prod' = [prod EXCEPT !.pc = "save_img", !.wrote.csv = "ok"]
       \/ /\ prod' = [prod EXCEPT !.pc = "save_img", !.success = FALSE,
                                  !.wrote.csv = "failed"]
          /\ UNCHANGED store
       \/ /\ prod.lidar # "None"
          /\ prod' = [prod EXCEPT !.pc = "save_img", !.success = FALSE,
                                  !.wrote.csv = "unformatted"]
          /\ UNCHANGED store
    /\ UNCHANGED <<now, hd, storeVars, supVars, fnVars, runVars>>

\* if image_data: save_file_atomic(image_path, image_data): written, or
\* failed; without image data the image artifact is left as it is.
ProdSaveImg ==
    /\ prod.pc = "save_img"
    /\ IF prod.image = "None"
       THEN /\ prod' = [prod EXCEPT !.pc = "sleep", !.wrote.img = "skipped"]
            /\ UNCHANGED store
       ELSE \/ /\ store' = [store EXCEPT !.img = [cyc |-> prod.cycle]]
               /\ prod' = [prod EXCEPT !.pc = "sleep", !.wrote.img = "ok"]
            \/ /\ prod' = [prod EXCEPT !.pc = "sleep", !.success = FALSE,
                                       !.wrote.img = "failed"]
               /\ UNCHANGED store
    /\ UNCHANGED <<now, hd, storeVars, supVars, fnVars, runVars>>

\* shutdown_event.wait(sleep_time), back to the loop test.
ProdSleep ==
    /\ prod.pc = "sleep"
    /\ prod' = [prod EXCEPT !.pc = "top"]
    /\ UNCHANGED <<now, store, hd, storeVars, supVars, fnVars, runVars>>

(***************************************************************************)
(* utils.is_data_stale, SensorDataHandler.handle, send_error, send_data    *)
(***************************************************************************)
\* A mutant: the operands of the subtraction exchanged.
IsDataStaleSwapped(timestamp, max_age) == (timestamp - now) > max_age

\* A mutant: stale from the boundary on.
IsDataStaleFromBoundary(timestamp, max_age) == (now - timestamp) >= max_age

\* return (time.time() - timestamp) > max_age
IsDataStale(timestamp, max_age) == (now - timestamp) > max_age

\* A mutant: the two error branches exchanged.
RespondSwapped(data, stale) ==
    CASE data = "None" -> "ERROR: No fresh data available"
      [] stale -> "ERROR: No data available"
      [] OTHER -> "success"

\* if not data: ...; if is_data_stale(...): ...; else send_data(...)
Respond(data, stale) ==
    CASE data = "None" -> "ERROR: No data available"
      [] stale -> "ERROR: No fresh data available"
      [] OTHER -> "success"

\* A mutant: the CSV is sent before the image.
SendallsCsvFirst ==
    << <<"TIMESTAMP", "IMAGE_SIZE">>, <<"CSV_SIZE">>, <<"csv">>, <<"image">>,
       <<"END">> >>

\* send_data: what each sendall sends; the two first headers are joined and
\* sent by one sendall.
Sendalls ==
    << <<"TIMESTAMP", "IMAGE_SIZE">>, <<"image">>, <<"CSV_SIZE">>, <<"csv">>,
       <<"END">> >>

\* The parts of a success response.
SuccessParts == <<"TIMESTAMP", "IMAGE_SIZE", "image", "CSV_SIZE", "csv", "END">>

\* A mutant: a connection is accepted when no other is being served.
ConnectSerial(c) ==
    /\ hd[c].pc = "idle"
    /\ \A d \in DOMAIN hd : hd[d].pc \in {"idle", "closed"}
    /\ hd' = [hd EXCEPT ![c].pc = "recv"]
    /\ UNCHANGED <<now, store, prod, storeVars, supVars, fnVars, runVars>>

\* A connection is accepted and handed to a handler thread.
Connect(c) ==
    /\ hd[c].pc = "idle"
    /\ hd' = [hd EXCEPT ![c].pc = "recv"]
    /\ UNCHANGED <<now, store, prod, storeVars, supVars, fnVars, runVars>>

\* What a client sends, as the bytes of one recv: the command token is one
\* unit, "GET_" is a part of it (the rest is in a later segment), "0xff" is a
\* byte that is no UTF-8; << >> is a peer that closed without sending.
Requests ==
    { <<PROTOCOL_GET_DATA_CMD, "\n">>, <<"GET_">>, <<"FOO", "\n">>, << >>,
      <<"0xff", "\n">> }

\* bytes.decode('utf-8'): [ok, value]; ok = FALSE stands for UnicodeDecodeError.
DecodeUtf8(b) ==
    IF \E i \in 1 .. Len(b) : b[i] = "0xff" THEN [ok |-> FALSE, value |-> << >>]
    ELSE [ok |-> TRUE, value |-> b]

\* self.request.recv(1024).decode('utf-8').strip(): the bytes of the request,
\* or socket.timeout after 5 s (logged, nothing is sent).  A decoding error
\* is caught by except Exception: send_error(f"ERROR: {str(e)}").
HandleRecv(c) ==
    /\ hd[c].pc = "recv"
    /\ \/ \E raw \in Requests :
             LET text == DecodeUtf8(raw)
             IN  IF ~text.ok
                 THEN hd' = [hd EXCEPT ![c].pc = "send_error", ![c].raw = raw,
                                       ![c].exc = "ERROR: codec can't decode"]
                 ELSE IF Strip(text.value) # <<PROTOCOL_GET_DATA_CMD>>
                 THEN hd' = [hd EXCEPT ![c].pc = "send_error", ![c].raw = raw,
                                       ![c].req = "other",
                                       ![c].resp = "ERROR: Invalid command"]
                 ELSE hd' = [hd EXCEPT ![c].pc = "load_ts", ![c].raw = raw,
                                       ![c].req = PROTOCOL_GET_DATA_CMD]
       \/ hd' = [hd EXCEPT ![c].pc = "closed", ![c].req = "timeout"]
    /\ UNCHANGED <<now, store, prod, storeVars, supVars, fnVars, runVars>>

\* utils.load_current_data(config.DATA_DIR): timestamp, image, CSV in this
\* order; a missing artifact gives None.
HandleLoad(c) ==
    /\ hd[c].pc \in {"load_ts", "load_img", "load_csv"}
    /\ CASE hd[c].pc = "load_ts" ->
              IF store.ts.cyc = 0
              THEN hd' = [hd EXCEPT ![c].pc = "select", ![c].data = "None"]
              ELSE hd' = [hd EXCEPT ![c].pc = "load_img",
                                    ![c].ts = store.ts.val,
                                    ![c].tsc = store.ts.cyc]
         [] hd[c].pc = "load_img" ->
              IF store.img.cyc = 0
              THEN hd' = [hd EXCEPT ![c].pc = "select", ![c].data = "None"]
              ELSE hd' = [hd EXCEPT ![c].pc = "load_csv",
                                    ![c].img = store.img.cyc]
         [] OTHER ->
              IF store.csv.cyc = 0
              THEN hd' = [hd EXCEPT ![c].pc = "select", ![c].data = "None"]
              ELSE hd' = [hd EXCEPT ![c].pc = "select", ![c].data = "Triple",
                                    ![c].csv = store.csv.cyc]
    /\ UNCHANGED <<now, store, prod, storeVars, supVars, fnVars, runVars>>

\* The branch of handle taken on the loaded data; the clock is read by
\* is_data_stale (only when there is data).
HandleSelect(c) ==
    /\ hd[c].pc = "select"
    /\ LET stale == hd[c].data = "Triple" /\ IsDataStale(hd[c].ts, MAX_DATA_AGE)
           resp == Respond(hd[c].data, stale)
       IN  hd' = [hd EXCEPT
                    ![c].resp = resp,
                    ![c].chkNow = IF hd[c].data = "Triple" THEN now ELSE 0,
                    ![c].pc = IF resp = "success" THEN "send_data"
                              ELSE "send_error"]
    /\ UNCHANGED <<now, store, prod, storeVars, supVars, fnVars, runVars>>

\* send_error(msg): the line is sent, or sendall fails (logged at debug
\* level); handle returns and the connection is closed.
HandleSendError(c) ==
    /\ hd[c].pc = "send_error"
    /\ \/ hd' = [hd EXCEPT ![c].pc = "closed",
                           ![c].sent = Append(@, IF hd[c].exc # "none"
                                                 THEN hd[c].exc ELSE hd[c].resp)]
       \/ hd' = [hd EXCEPT ![c].pc = "closed", ![c].sendFailed = TRUE]
    /\ UNCHANGED <<now, store, prod, storeVars, supVars, fnVars, runVars>>

\* A mutant: the TIMESTAMP header carries the time of sending.
HandleSendPartStamped(c) ==
    /\ hd[c].pc = "send_data"
    /\ LET k == IF hd[c].sent = << >> THEN 1 ELSE Len(hd[c].sent)
       IN  hd' = [hd EXCEPT
                    ![c].sent = @ \o Sendalls[k],
                    ![c].sentTs = IF k = 1 THEN now ELSE @,
                    ![c].pc = IF k = Len(Sendalls) THEN "closed"
                              ELSE "send_data"]
    /\ UNCHANGED <<now, store, prod, storeVars, supVars, fnVars, runVars>>

\* send_data: the next sendall of the success response; the TIMESTAMP header
\* carries the timestamp that load_current_data returned.
HandleSendPart(c) ==
    /\ hd[c].pc = "send_data"
    /\ LET k == IF hd[c].sent = << >> THEN 1 ELSE Len(hd[c].sent)
       IN  hd' = [hd EXCEPT
                    ![c].sent = @ \o Sendalls[k],
                    ![c].sentTs = IF k = 1 THEN hd[c].ts ELSE @,
                    ![c].pc = IF k = Len(Sendalls) THEN "closed"
                              ELSE "send_data"]
    /\ UNCHANGED <<now, store, prod, storeVars, supVars, fnVars, runVars>>

\* A mutant: the exception of send_data leaves handle.
HandleSendFailsRaises(c) ==
    /\ hd[c].pc = "send_data"
    /\ hd' = [hd EXCEPT ![c].pc = "raised", ![c].sendFailed = TRUE]
    /\ UNCHANGED <<now, store, prod, storeVars, supVars, fnVars, runVars>>

\* send_data: a sendall fails; "Failed to send data" is raised, handle's
\* except branch calls send_error("ERROR: Failed to send data: ...").
HandleSendFails(c) ==
    /\ hd[c].pc = "send_data"
    /\ hd' = [hd EXCEPT ![c].pc = "send_error", ![c].sendFailed = TRUE,
                        ![c].exc = "ERROR: Failed to send data"]
    /\ UNCHANGED <<now, store, prod, storeVars, supVars, fnVars, runVars>>

(***************************************************************************)
(* The Supervisor (SpecSup): main(), monitor_processes, signal_handler and *)
(* the two child processes.  Time is counted in seconds by the timers of   *)
(* the waits; a step that does not wait takes no time.                     *)
(***************************************************************************)
MaxCrashes == 1

SLEEP_BEFORE_LISTENER == 2
READER_READY_TIMEOUT == 30
PORT_READY_TIMEOUT == 10
MONITOR_INTERVAL == 5
SHUTDOWN_TIMEOUT == 10
MONITOR_ERROR_WAIT == 1

Roles == {"reader", "listener"}

\* The Process objects that can be created: the first two, one more for each
\* crash, and one more per role when a respawn races with the shutdown.
MaxProcs == 4 + MaxCrashes
Pids == 1 .. MaxProcs
NoProc == 0

Alive(p) == p # NoProc /\ procs[p].st \in {"init", "loop", "left"}

RoleAlive(r) == \E p \in Pids : procs[p].role = r /\ Alive(p)

RoleStarted(r) == \E p \in Pids : procs[p].role = r /\ procs[p].st # "none"

\* The port accepts connections: a Listener process serves (SensorListener.run).
PortOpen == \E p \in Pids : procs[p].role = "listener" /\ procs[p].st = "loop"

MainIdle ==
    [pc |-> "logging", role |-> "reader", h |-> [r \in Roles |-> NoProc],
     timer |-> 0, exit |-> -1, dirs |-> "pending"]

MonIdle ==
    [pc |-> "off", role |-> "reader", h |-> [r \in Roles |-> NoProc], timer |-> 0,
     polled |-> FALSE, raised |-> FALSE]

SupQuiet ==
    /\ shutdown = FALSE
    /\ procs = [p \in Pids |-> [role |-> "reader", st |-> "none"]]
    /\ nProcs = 0
    /\ main = MainIdle
    /\ mon = MonIdle
    /\ tsWriter = NoProc
    /\ env = [supSignal |-> FALSE, childSignal |-> FALSE, crashes |-> 0]
    /\ downFor = [r \in Roles |-> 0]

\* Process(target=run_<role>_process).start(): a new process of the role.
Spawn(r) ==
    /\ nProcs < MaxProcs
    /\ nProcs' = nProcs + 1
    /\ procs' = [procs EXCEPT ![nProcs + 1] = [role |-> r, st |-> "init"]]
    /\ downFor' = [downFor EXCEPT ![r] = 0]

(***************************************************************************)
(* signal_handler: installed by main() before the children are forked, so  *)
(* the children inherit it; it sets the shared event in whichever process  *)
(* the signal is delivered to.  (The children are forked: the event of     *)
(* main.py is shared with them only under the fork start method.)          *)
(***************************************************************************)
SignalHandler == shutdown' = TRUE

\* SIGINT or SIGTERM delivered to the Supervisor.
SignalSupervisor ==
    /\ main.pc # "returned"
    /\ SignalHandler
    /\ env' = [env EXCEPT !.supSignal = TRUE]
    /\ UNCHANGED <<procs, nProcs, main, mon, tsWriter, downFor,
                   storeVars, serveVars, fnVars, runVars>>

\* SIGTERM delivered to one child process only (kill <pid>).
SignalChild(p) ==
    /\ Alive(p)
    /\ SignalHandler
    /\ env' = [env EXCEPT !.childSignal = TRUE]
    /\ UNCHANGED <<procs, nProcs, main, mon, tsWriter, downFor,
                   storeVars, serveVars, fnVars, runVars>>

\* A child process dies: SIGKILL, or an exception that leaves run_*_process.
Crash(p) ==
    /\ Alive(p)
    /\ env.crashes < MaxCrashes
    /\ env' = [env EXCEPT !.crashes = @ + 1]
    /\ procs' = [procs EXCEPT ![p].st = "dead"]
    /\ UNCHANGED <<shutdown, nProcs, main, mon, tsWriter, downFor,
                   storeVars, serveVars, fnVars, runVars>>

(***************************************************************************)
(* The child processes: run_reader_process, run_listener_process           *)
(***************************************************************************)
\* initialize() returned, run() reaches its loop test for the first time:
\* while not shutdown_event.is_set().
ChildEnterLoop(p) ==
    /\ procs[p].st = "init"
    /\ procs' = [procs EXCEPT ![p].st = IF shutdown THEN "left" ELSE "loop"]
    /\ UNCHANGED <<shutdown, nProcs, main, mon, tsWriter, env, downFor,
                   storeVars, serveVars, fnVars, runVars>>

\* One cycle of SensorReader.run: the timestamp artifact is written.
ReaderCycle(p) ==
    /\ procs[p].role = "reader" /\ procs[p].st = "loop"
    /\ tsWriter # p
    /\ tsWriter' = p
    /\ UNCHANGED <<shutdown, procs, nProcs, main, mon, env, downFor,
                   storeVars, serveVars, fnVars, runVars>>

\* The loop test after shutdown_event.wait(...) finds the event set.
ChildLeaveLoop(p) ==
    /\ procs[p].st = "loop" /\ shutdown
    /\ procs' = [procs EXCEPT ![p].st = "left"]
    /\ UNCHANGED <<shutdown, nProcs, main, mon, tsWriter, env, downFor,
                   storeVars, serveVars, fnVars, runVars>>

\* cleanup() is over and the process exits.
ChildExit(p) ==
    /\ procs[p].st = "left"
    /\ procs' = [procs EXCEPT ![p].st = "dead"]
    /\ UNCHANGED <<shutdown, nProcs, main, mon, tsWriter, env, downFor,
                   storeVars, serveVars, fnVars, runVars>>

(***************************************************************************)
(* main()                                                                  *)
(***************************************************************************)
\* logger = setup_main_logging(): utils.ensure_directory(config.LOG_DIR), whose
\* result is not looked at, then the log file is opened in LOG_DIR: when the
\* directory could not be created, logging.FileHandler raises, outside the try
\* of main(), and the interpreter exits with code 1.
MainLogging ==
    /\ main.pc = "logging"
    /\ \/ main' = [main EXCEPT !.pc = "dirs"]
       \/ main' = [main EXCEPT !.pc = "returned", !.exit = 1,
                               !.dirs = "log_failed"]
    /\ UNCHANGED <<shutdown, procs, nProcs, mon, tsWriter, env, downFor,
                   storeVars, serveVars, fnVars, runVars>>

\* A mutant: the result of ensure_directory is not looked at.
MainDirsIgnored ==
    /\ main.pc = "dirs"
    /\ \E d \in {"ok", "data_failed", "log_failed"} :
          main' = [main EXCEPT !.pc = "start", !.role = "reader", !.dirs = d]
    /\ UNCHANGED <<shutdown, procs, nProcs, mon, tsWriter, env, downFor,
                   storeVars, serveVars, fnVars, runVars>>

\* if not utils.ensure_directory(config.DATA_DIR): return 1, the same for
\* config.LOG_DIR; sys.exit(exit_code).
MainDirs ==
    /\ main.pc = "dirs"
    /\ \/ main' = [main EXCEPT !.pc = "start", !.role = "reader", !.dirs = "ok"]
       \/ \E d \in {"data_failed", "log_failed"} :
             main' = [main EXCEPT !.pc = "returned", !.exit = 1, !.dirs = d]
    /\ UNCHANGED <<shutdown, procs, nProcs, mon, tsWriter, env, downFor,
                   storeVars, serveVars, fnVars, runVars>>

\* reader_process.start(); time.sleep(2); listener_process.start().
MainStart ==
    /\ main.pc = "start"
    /\ Spawn(main.role)
    /\ main' = [main EXCEPT
                  !.h[main.role] = nProcs + 1,
                  !.pc = IF main.role = "reader" THEN "sleep" ELSE "wait_reader",
                  !.timer = IF main.role = "reader" THEN SLEEP_BEFORE_LISTENER
                            ELSE READER_READY_TIMEOUT]
    /\ UNCHANGED <<shutdown, mon, tsWriter, env, storeVars, serveVars, fnVars, runVars>>

MainSleep ==
    /\ main.pc = "sleep" /\ main.timer = 0
    /\ main' = [main EXCEPT !.pc = "start", !.role = "listener"]
    /\ UNCHANGED <<shutdown, procs, nProcs, mon, tsWriter, env, downFor,
                   storeVars, serveVars, fnVars, runVars>>

\* wait_for_reader_data(timeout=30) returns: shutdown, data, or timeout.
\* The timestamp counts as recent (younger than 10 s) when a Producer of this
\* run has written it.
ReaderGateOver == shutdown \/ tsWriter # NoProc \/ main.timer = 0

\* A mutant: a Producer that is not ready in time ends main() with 1.
MainWaitReaderAborts ==
    /\ main.pc = "wait_reader" /\ ReaderGateOver
    /\ main' = IF shutdown \/ tsWriter # NoProc
               THEN [main EXCEPT !.pc = "wait_port", !.timer = PORT_READY_TIMEOUT]
               ELSE [main EXCEPT !.pc = "returned", !.exit = 1, !.timer = 0]
    /\ UNCHANGED <<shutdown, procs, nProcs, mon, tsWriter, env, downFor,
                   storeVars, serveVars, fnVars, runVars>>

MainWaitReader ==
    /\ main.pc = "wait_reader" /\ ReaderGateOver
    /\ main' = [main EXCEPT !.pc = "wait_port", !.timer = PORT_READY_TIMEOUT]
    /\ UNCHANGED <<shutdown, procs, nProcs, mon, tsWriter, env, downFor,
                   storeVars, serveVars, fnVars, runVars>>

\* check_network_port(port, timeout=10) returns: shutdown, connected, timeout.
PortGateOver == shutdown \/ PortOpen \/ main.timer = 0

MainWaitPort ==
    /\ main.pc = "wait_port" /\ PortGateOver
    /\ main' = [main EXCEPT !.pc = "start_monitor", !.timer = 0]
    /\ UNCHANGED <<shutdown, procs, nProcs, mon, tsWriter, env, downFor,
                   storeVars, serveVars, fnVars, runVars>>

\* threading.Thread(target=monitor_processes, args=(reader_process,
\* listener_process), daemon=True).start()
MainStartMonitor ==
    /\ main.pc = "start_monitor"
    /\ main' = [main EXCEPT !.pc = "loop"]
    /\ mon' = [mon EXCEPT !.pc = "test", !.h = main.h]
    /\ UNCHANGED <<shutdown, procs, nProcs, tsWriter, env, downFor,
                   storeVars, serveVars, fnVars, runVars>>

\* while not shutdown_event.is_set(): shutdown_event.wait(1)
MainLoopExit ==
    /\ main.pc = "loop" /\ shutdown
    /\ main' = [main EXCEPT !.pc = "terminate", !.role = "reader"]
    /\ UNCHANGED <<shutdown, procs, nProcs, mon, tsWriter, env, downFor,
                   storeVars, serveVars, fnVars, runVars>>

\* if <role>_process.is_alive(): <role>_process.terminate(): SIGTERM, which
\* the child handles with the inherited signal_handler.
MainTerminate ==
    /\ main.pc = "terminate"
    /\ IF Alive(main.h[main.role]) THEN SignalHandler ELSE UNCHANGED shutdown
    /\ main' = IF main.role = "reader" THEN [main EXCEPT !.role = "listener"]
               ELSE [main EXCEPT !.pc = "join", !.role = "reader",
                                 !.timer = SHUTDOWN_TIMEOUT]
    /\ UNCHANGED <<procs, nProcs, mon, tsWriter, env, downFor,
                   storeVars, serveVars, fnVars, runVars>>

\* <role>_process.join(timeout=10) returns: the process is over, or timeout.
MainJoin ==
    /\ main.pc = "join"
    /\ ~Alive(main.h[main.role]) \/ main.timer = 0
    /\ main' = IF main.role = "reader"
               THEN [main EXCEPT !.role = "listener", !.timer = SHUTDOWN_TIMEOUT]
               ELSE [main EXCEPT !.pc = "kill", !.role = "reader", !.timer = 0]
    /\ UNCHANGED <<shutdown, procs, nProcs, mon, tsWriter, env, downFor,
                   storeVars, serveVars, fnVars, runVars>>

\* if <role>_process.is_alive(): kill(); join().  After the listener: return 0.
MainKill ==
    /\ main.pc = "kill"
    /\ procs' = IF Alive(main.h[main.role])
                THEN [procs EXCEPT ![main.h[main.role]].st = "dead"]
                ELSE procs
    /\ main' = IF main.role = "reader" THEN [main EXCEPT !.role = "listener"]
               ELSE [main EXCEPT !.pc = "returned", !.exit = 0]
    /\ UNCHANGED <<shutdown, nProcs, mon, tsWriter, env, downFor,
                   storeVars, serveVars, fnVars, runVars>>

(***************************************************************************)
(* monitor_processes(reader_process, listener_process), a daemon thread of *)
(* the Supervisor: it runs while main() has not returned.                  *)
(***************************************************************************)
MonRuns == main.pc # "returned"

\* while not shutdown_event.is_set():
MonTest ==
    /\ MonRuns /\ mon.pc = "test"
    /\ mon' = IF shutdown THEN [mon EXCEPT !.pc = "done"]
              ELSE [mon EXCEPT !.pc = "check", !.role = "reader"]
    /\ UNCHANGED <<shutdown, procs, nProcs, main, tsWriter, env, downFor,
                   storeVars, serveVars, fnVars, runVars>>

\* After the reader comes the listener, after the listener the wait.
MonAfter(m) ==
    IF m.role = "reader" THEN [m EXCEPT !.pc = "check", !.role = "listener"]
    ELSE [m EXCEPT !.pc = "wait", !.timer = MONITOR_INTERVAL, !.polled = TRUE]

\* A mutant: the child is taken to be alive.
MonCheckBlind ==
    /\ MonRuns /\ mon.pc = "check"
    /\ mon' = MonAfter(mon)
    /\ UNCHANGED <<shutdown, procs, nProcs, main, tsWriter, env, downFor,
                   storeVars, serveVars, fnVars, runVars>>

\* A mutant: the role is started again at every poll.
MonCheckRestartsAlive ==
    /\ MonRuns /\ mon.pc = "check"
    /\ mon' = [mon EXCEPT !.pc = "gate"]
    /\ UNCHANGED <<shutdown, procs, nProcs, main, tsWriter, env, downFor,
                   storeVars, serveVars, fnVars, runVars>>

\* if not <role>_process.is_alive(): logger.error(...)
MonCheck ==
    /\ MonRuns /\ mon.pc = "check"
    /\ mon' = IF Alive(mon.h[mon.role]) THEN MonAfter(mon)
              ELSE [mon EXCEPT !.pc = "gate"]
    /\ UNCHANGED <<shutdown, procs, nProcs, main, tsWriter, env, downFor,
                   storeVars, serveVars, fnVars, runVars>>

\* if not shutdown_event.is_set(): logger.info("Restarting ...")
MonGate ==
    /\ MonRuns /\ mon.pc = "gate"
    /\ mon' = IF shutdown THEN MonAfter(mon) ELSE [mon EXCEPT !.pc = "start"]
    /\ UNCHANGED <<shutdown, procs, nProcs, main, tsWriter, env, downFor,
                   storeVars, serveVars, fnVars, runVars>>

\* <role>_process = Process(...); <role>_process.start(): the new handle is
\* a local of monitor_processes; main() keeps the handles it created.
MonStart ==
    /\ MonRuns /\ mon.pc = "start"
    /\ Spawn(mon.role)
    /\ mon' = MonAfter([mon EXCEPT !.h[mon.role] = nProcs + 1])
    /\ UNCHANGED <<shutdown, main, tsWriter, env, storeVars, serveVars, fnVars, runVars>>

\* A mutant: the event is cleared for the next wait.
MonWaitClears ==
    /\ MonRuns /\ mon.pc = "wait"
    /\ shutdown \/ mon.timer = 0
    /\ mon' = [mon EXCEPT !.pc = "test", !.timer = 0]
    /\ shutdown' = FALSE
    /\ UNCHANGED <<procs, nProcs, main, tsWriter, env, downFor,
                   storeVars, serveVars, fnVars, runVars>>

\* shutdown_event.wait(5) returns: the event is set, or 5 s have passed.
MonWait ==
    /\ MonRuns /\ mon.pc = "wait"
    /\ shutdown \/ mon.timer = 0
    /\ mon' = [mon EXCEPT !.pc = "test", !.timer = 0]
    /\ UNCHANGED <<shutdown, procs, nProcs, main, tsWriter, env, downFor,
                   storeVars, serveVars, fnVars, runVars>>

\* A mutant: an exception ends monitor_processes.
MonRaiseEnds ==
    /\ MonRuns /\ mon.pc \in {"check", "start"}
    /\ mon' = [mon EXCEPT !.pc = "done", !.raised = TRUE]
    /\ UNCHANGED <<shutdown, procs, nProcs, main, tsWriter, env, downFor,
                   storeVars, serveVars, fnVars, runVars>>

\* is_alive() or Process(...).start() raises (the fork fails): except
\* Exception: logger.error(...); shutdown_event.wait(1), then the loop test.
\* No process was started.
MonRaise ==
    /\ MonRuns /\ mon.pc \in {"check", "start"}
    /\ mon' = [mon EXCEPT !.pc = "wait", !.timer = MONITOR_ERROR_WAIT,
                          !.raised = TRUE]
    /\ UNCHANGED <<shutdown, procs, nProcs, main, tsWriter, env, downFor,
                   storeVars, serveVars, fnVars, runVars>>

(***************************************************************************)
(* One second passes.  The threads of the Supervisor that do not wait act  *)
(* before it does; the child processes take the time they take.            *)
(***************************************************************************)
MainWaits ==
    \/ main.pc = "sleep" /\ main.timer > 0
    \/ main.pc = "wait_reader" /\ ~ReaderGateOver
    \/ main.pc = "wait_port" /\ ~PortGateOver
    \/ main.pc = "loop" /\ ~shutdown
    \/ main.pc = "join" /\ Alive(main.h[main.role]) /\ main.timer > 0
    \/ main.pc = "returned"

MonWaits ==
    \/ mon.pc \in {"off", "done"}
    \/ ~MonRuns
    \/ mon.pc = "wait" /\ ~shutdown /\ mon.timer > 0

Capped(n) == IF n > MONITOR_INTERVAL THEN n ELSE n + 1

Second ==
    /\ MainWaits /\ MonWaits
    /\ \/ main.timer > 0
       \/ mon.pc = "wait" /\ MonRuns
       \/ \E r \in Roles : RoleStarted(r) /\ ~RoleAlive(r)
                           /\ downFor[r] <= MONITOR_INTERVAL
    /\ main' = [main EXCEPT !.timer = IF @ > 0 THEN @ - 1 ELSE 0]
    /\ mon' = [mon EXCEPT !.timer = IF @ > 0 THEN @ - 1 ELSE 0]
    /\ downFor' = [r \in Roles |->
                     IF RoleStarted(r) /\ ~RoleAlive(r) THEN Capped(downFor[r])
                     ELSE downFor[r]]
    /\ UNCHANGED <<shutdown, procs, nProcs, tsWriter, env, storeVars, serveVars, fnVars, runVars>>

(***************************************************************************)
(* send_data byte by byte (SpecFrame): one call on a given image and CSV   *)
(* text, then a client that extracts the payloads by byte offset.          *)
(***************************************************************************)
MaxPayload == 2

FnQuiet == fn = [op |-> "none"]

\* The bytes of an image, and the characters of a CSV text: "a" is one byte
\* in UTF-8, "é" is two.
ImageBytes == {"a", "0xc3"}
TextChars == {"a", "é"}

RECURSIVE SeqsOver(_, _)
SeqsOver(S, n) ==
    IF n = 0 THEN {<< >>}
    ELSE SeqsOver(S, n - 1) \cup
         {Append(q, x) : q \in {t \in SeqsOver(S, n - 1) : Len(t) = n - 1}, x \in S}

\* str.encode('utf-8')
RECURSIVE Utf8Encode(_)
Utf8Encode(text) ==
    IF text = << >> THEN << >>
    ELSE (IF Head(text) = "é" THEN <<"0xc3", "0xa9">> ELSE <<Head(text)>>)
         \o Utf8Encode(Tail(text))

\* bytes.decode('utf-8') of these bytes: [ok, value]; every byte but the two
\* of "é" is a character of its own.
RECURSIVE Utf8Decode(_)
Utf8Decode(b) ==
    IF b = << >> THEN [ok |-> TRUE, value |-> << >>]
    ELSE IF Head(b) \notin {"0xc3", "0xa9"}
    THEN LET r == Utf8Decode(Tail(b))
         IN  [ok |-> r.ok, value |-> <<Head(b)>> \o r.value]
    ELSE IF Head(b) = "0xc3" /\ Len(b) >= 2 /\ b[2] = "0xa9"
    THEN LET r == Utf8Decode(Tail(Tail(b)))
         IN  [ok |-> r.ok, value |-> <<"é">> \o r.value]
    ELSE [ok |-> FALSE, value |-> << >>]

\* send_data(timestamp, image_data, csv_data) is called.
FrameInit ==
    \E image \in SeqsOver(ImageBytes, MaxPayload), csv \in SeqsOver(TextChars, MaxPayload) :
        fn = [op |-> "send_data", pc |-> "header", image_data |-> image,
              csv_data |-> csv, IMAGE_SIZE |-> 0, CSV_SIZE |-> 0,
              wire |-> << >>, got_image |-> <<"none">>, got_csv |-> <<"none">>,
              parsed |-> "none"]

\* header = "TIMESTAMP:...\n" + f"IMAGE_SIZE:{len(image_data)}\n"; the wire
\* is kept from the byte after the IMAGE_SIZE line.
SendDataHeader ==
    /\ fn.op = "send_data" /\ fn.pc = "header"
    /\ fn' = [fn EXCEPT !.pc = "image", !.IMAGE_SIZE = Len(fn.image_data)]
    /\ UNCHANGED <<storeVars, serveVars, supVars, runVars>>

\* self.request.sendall(image_data)
SendDataImage ==
    /\ fn.op = "send_data" /\ fn.pc = "image"
    /\ fn' = [fn EXCEPT !.pc = "csv_header", !.wire = @ \o fn.image_data]
    /\ UNCHANGED <<storeVars, serveVars, supVars, runVars>>

\* csv_header = f"CSV_SIZE:{len(csv_data)}\n": the length of the str.
SendDataCsvHeader ==
    /\ fn.op = "send_data" /\ fn.pc = "csv_header"
    /\ fn' = [fn EXCEPT !.pc = "csv", !.CSV_SIZE = Len(fn.csv_data),
                        !.wire = Append(@, "CSV_SIZE")]
    /\ UNCHANGED <<storeVars, serveVars, supVars, runVars>>

\* self.request.sendall(csv_data.encode('utf-8'))
SendDataCsv ==
    /\ fn.op = "send_data" /\ fn.pc = "csv"
    /\ fn' = [fn EXCEPT !.pc = "end", !.wire = @ \o Utf8Encode(fn.csv_data)]
    /\ UNCHANGED <<storeVars, serveVars, supVars, runVars>>

\* end_marker = f"{config.PROTOCOL_END_MARKER}\n"
SendDataEnd ==
    /\ fn.op = "send_data" /\ fn.pc = "end"
    /\ fn' = [fn EXCEPT !.pc = "parse", !.wire = Append(@, "END")]
    /\ UNCHANGED <<storeVars, serveVars, supVars, runVars>>

\* The first CSV_SIZE line at or after position k of the wire (bytes.find).
RECURSIVE FindCsvSize(_, _)
FindCsvSize(w, k) ==
    IF k > Len(w) THEN 0
    ELSE IF w[k] = "CSV_SIZE" THEN k ELSE FindCsvSize(w, k + 1)

\* bytes[a : a + n]
Slice(w, a, n) ==
    SubSeq(w, a, IF a + n - 1 > Len(w) THEN Len(w) ELSE a + n - 1)

\* SensorClient._parse_response: the image is the IMAGE_SIZE bytes after the
\* header, the CSV the CSV_SIZE bytes after the CSV_SIZE line, decoded.
ParseResponse ==
    /\ fn.op = "send_data" /\ fn.pc = "parse"
    /\ LET at == FindCsvSize(fn.wire, fn.IMAGE_SIZE + 1)
           raw == Slice(fn.wire, at + 1, fn.CSV_SIZE)
           text == Utf8Decode(raw)
       IN  fn' = [fn EXCEPT
                    !.pc = "done",
                    !.got_image = Slice(fn.wire, 1, fn.IMAGE_SIZE),
                    !.got_csv = IF at # 0 /\ text.ok THEN text.value ELSE @,
                    !.parsed = IF at # 0 /\ text.ok THEN "triple" ELSE "None"]
    /\ UNCHANGED <<storeVars, serveVars, supVars, runVars>>

(***************************************************************************)
(* save_text_atomic, save_file_atomic and load_current_data on contents    *)
(* (SpecRoundTrip): a triple is written with no other writer and no        *)
(* failure, then loaded.                                                   *)
(***************************************************************************)
\* The characters of a CSV text to write: a letter, and the line ends.
CsvChars == {"a", "\r", "\n"}

\* The timestamps to write: the numbers the digit "1" spells.
Timestamps == {Decimal(d) : d \in SeqsOver({"1"}, MaxPayload) \ {<< >>}}

\* str(timestamp)
RECURSIVE StrOfFloat(_)
StrOfFloat(x) == IF x < 10 THEN <<"1">> ELSE Append(StrOfFloat(x \div 10), "1")

\* What f.read() returns for a file opened with mode "r": the bytes decoded,
\* every "\r\n" and every other "\r" replaced by "\n" (universal newlines).
RECURSIVE TranslateNewlines(_)
TranslateNewlines(t) ==
    IF t = << >> THEN << >>
    ELSE IF Head(t) = "\r"
    THEN <<"\n">> \o TranslateNewlines(IF Len(t) >= 2 /\ t[2] = "\n"
                                       THEN Tail(Tail(t)) ELSE Tail(t))
    ELSE <<Head(t)>> \o TranslateNewlines(Tail(t))

TextModeRead(b) == TranslateNewlines(Utf8Decode(b).value)

RoundTripInit ==
    \E t \in Timestamps, image \in SeqsOver(ImageBytes, MaxPayload),
       csv \in SeqsOver(CsvChars, MaxPayload) :
        fn = [op |-> "round_trip", pc |-> "save_ts", timestamp |-> t,
              image_data |-> image, csv_data |-> csv,
              files |-> [p \in Artifacts |-> <<"absent">>],
              got_ts |-> 0, got_image |-> <<"none">>, got_csv |-> <<"none">>,
              ret |-> "none"]

\* save_text_atomic(timestamp_path, str(timestamp)),
\* save_file_atomic(image_path, image_data),
\* save_text_atomic(csv_path, csv_content): text.encode("utf-8") is written.
RoundTripSave ==
    /\ fn.op = "round_trip" /\ fn.pc \in {"save_ts", "save_img", "save_csv"}
    /\ fn' = CASE fn.pc = "save_ts" ->
                    [fn EXCEPT !.pc = "save_img",
                               !.files[TIMESTAMP_FILE] = Utf8Encode(StrOfFloat(fn.timestamp))]
               [] fn.pc = "save_img" ->
                    [fn EXCEPT !.pc = "save_csv",
                               !.files[CURRENT_IMAGE_FILE] = fn.image_data]
               [] OTHER ->
                    [fn EXCEPT !.pc = "load_ts",
                               !.files[CURRENT_CSV_FILE] = Utf8Encode(fn.csv_data)]
    /\ UNCHANGED <<storeVars, serveVars, supVars, runVars>>

\* load_current_data: open(timestamp_path, "r"), float(f.read().strip());
\* open(image_path, "rb"), f.read(); open(csv_path, "r"), f.read().
RoundTripLoad ==
    /\ fn.op = "round_trip" /\ fn.pc \in {"load_ts", "load_img", "load_csv"}
    /\ fn' = CASE fn.pc = "load_ts" ->
                    LET x == ParseFloat(TextModeRead(fn.files[TIMESTAMP_FILE]))
                    IN  IF x.ok THEN [fn EXCEPT !.pc = "load_img", !.got_ts = x.value]
                        ELSE [fn EXCEPT !.pc = "done", !.ret = "None"]
               [] fn.pc = "load_img" ->
                    [fn EXCEPT !.pc = "load_csv",
                               !.got_image = fn.files[CURRENT_IMAGE_FILE]]
               [] OTHER ->
                    [fn EXCEPT !.pc = "done", !.ret = "triple",
                               !.got_csv = TextModeRead(fn.files[CURRENT_CSV_FILE])]
    /\ UNCHANGED <<storeVars, serveVars, supVars, runVars>>

(***************************************************************************)
(* is_data_stale on given arguments at a given time (SpecStale).           *)
(***************************************************************************)
MaxAge == 3

\* The times of the clock and the timestamps, some of them in the future.
StaleTimes == StartTime .. StartTime + 2 * MaxAge

StaleInit ==
    /\ now \in StaleTimes
    /\ \E t \in StaleTimes, a \in 0 .. MaxAge :
          fn = [op |-> "is_data_stale", pc |-> "call", timestamp |-> t,
                max_age |-> a, ret |-> FALSE]

\* utils.is_data_stale(timestamp, max_age)
StaleCall ==
    /\ fn.op = "is_data_stale" /\ fn.pc = "call"
    /\ fn' = [fn EXCEPT !.pc = "done",
                        !.ret = IsDataStale(fn.timestamp, fn.max_age)]
    /\ UNCHANGED <<storeVars, serveVars, supVars, runVars>>

(***************************************************************************)
(* One Producer process and one Consumer process (SpecRun):                *)
(* run_reader_process with SensorReader.initialize, run,                   *)
(* read_sensors_parallel over the pool of worker threads and cleanup;      *)
(* run_listener_process with the wait loop of SensorListener.run and the   *)
(* serve_forever thread.  Time is counted in half seconds, the value of    *)
(* READING_INTERVAL; a step that does not wait takes no time.              *)
(***************************************************************************)
HalfSeconds(s) == 2 * s

READING_INTERVAL == 1
ERROR_RETRY_INTERVAL == HalfSeconds(1)
RESULT_TIMEOUT == HalfSeconds(5)
MAX_WORKERS == 2
LISTENER_WAIT == HalfSeconds(1)
POLL_INTERVAL == 1

Workers == 1 .. MAX_WORKERS

\* The longest a cycle can keep the loop from its test: the two results are
\* awaited one after the other.
MaxSince == 2 * RESULT_TIMEOUT + 1

supRest == <<procs, nProcs, main, mon, tsWriter, env, downFor>>

IdleWorker == [src |-> "none", cyc |-> 0, hung |-> FALSE]

NoFutures == [lidar |-> "none", camera |-> "none"]

ReaderIdleProcess ==
    [pc |-> "uninit", timer |-> 0, cycle |-> 0, elapsed |-> 0, since |-> 0,
     init_ok |-> FALSE, is_initialized |-> FALSE, is_ranging_started |-> FALSE,
     queue |-> << >>, workers |-> [w \in Workers |-> IdleWorker],
     fut |-> NoFutures, saved |-> 0, excs |-> 0, stops |-> 0, exit |-> -1,
     sleep_time |-> -1]

ListenerIdleProcess ==
    [pc |-> "init", timer |-> 0, serving |-> FALSE, stop_req |-> FALSE,
     accepted |-> 0, since |-> 0]

RunQuiet ==
    /\ rd = ReaderIdleProcess
    /\ ls = ListenerIdleProcess

\* The positions of SensorReader.run between its first loop test and the
\* test that finds the event set.
ReaderLoopPcs ==
    {"test", "submit", "join_lidar", "join_camera", "save", "pace", "sleep",
     "retry"}

\* SIGTERM or SIGINT reaches the processes (terminate() of the Supervisor,
\* or the terminal): signal_handler sets the shared event.
RunSignal ==
    /\ ~shutdown
    /\ shutdown' = TRUE
    /\ UNCHANGED <<rd, ls, supRest, storeVars, serveVars, fnVars>>

(***************************************************************************)
(* run_reader_process                                                      *)
(***************************************************************************)
\* reader = SensorReader(): logging is set up, the pool is created; an
\* exception (the log file cannot be opened) leaves run_reader_process.
RdConstruct ==
    /\ rd.pc = "uninit"
    /\ \/ rd' = [rd EXCEPT !.pc = "init_dir"]
       \/ rd' = [rd EXCEPT !.pc = "exited", !.exit = 1]
    /\ UNCHANGED <<ls, supVars, storeVars, serveVars, fnVars>>

\* initialize(): if not utils.ensure_directory(config.DATA_DIR): return False
\* and run_reader_process goes on to reader.cleanup().
RdInitDir ==
    /\ rd.pc = "init_dir"
    /\ \/ rd' = [rd EXCEPT !.pc = "init_lidar"]
       \/ rd' = [rd EXCEPT !.pc = "cleanup_lidar", !.init_ok = FALSE]
    /\ UNCHANGED <<ls, supVars, storeVars, serveVars, fnVars>>

\* A mutant: initialize() returns lidar_ok.
RdInitLidarRequired ==
    /\ rd.pc = "init_lidar"
    /\ \E ok \in BOOLEAN, ranging \in BOOLEAN :
          /\ ok => ranging
          /\ rd' = [rd EXCEPT !.pc = IF ok THEN "test" ELSE "cleanup_lidar",
                              !.init_ok = ok,
                              !.is_initialized = ok,
                              !.is_ranging_started = ranging]
    /\ UNCHANGED <<ls, supVars, storeVars, serveVars, fnVars>>

\* lidar_ok = self.lidar_reader.initialize(); return True.  The sensor is
\* initialised and ranging; or it failed before start_ranging(); or after it
\* (is_ranging_started is set before is_initialized).
RdInitLidar ==
    /\ rd.pc = "init_lidar"
    /\ \E ok \in BOOLEAN, ranging \in BOOLEAN :
          /\ ok => ranging
          /\ rd' = [rd EXCEPT !.pc = "test", !.init_ok = TRUE,
                              !.is_initialized = ok,
                              !.is_ranging_started = ranging]
    /\ UNCHANGED <<ls, supVars, storeVars, serveVars, fnVars>>

\* while not shutdown_event.is_set():
RdTest ==
    /\ rd.pc = "test"
    /\ shutdown \/ rd.cycle < MaxCycles
    /\ rd' = [rd EXCEPT !.pc = IF shutdown THEN "cleanup_lidar" ELSE "submit"]
    /\ UNCHANGED <<ls, supVars, storeVars, serveVars, fnVars>>

\* iteration += 1; start_time = time.time(); executor.submit(read_data),
\* executor.submit(capture_image): the work items enter the queue of the pool in
\* this order; lidar_future.result(timeout=5) is entered.
RdSubmit ==
    /\ rd.pc = "submit"
    /\ rd' = [rd EXCEPT
                !.pc = "join_lidar", !.cycle = @ + 1, !.elapsed = 0,
                !.timer = RESULT_TIMEOUT,
                !.queue = @ \o << [src |-> "lidar", cyc |-> rd.cycle + 1],
                                  [src |-> "camera", cyc |-> rd.cycle + 1] >>,
                !.fut = [lidar |-> "pending", camera |-> "pending"]]
    /\ UNCHANGED <<ls, supVars, storeVars, serveVars, fnVars>>

\* A worker thread of the pool that has nothing to do takes the oldest work
\* item; the call it makes returns later, or never does.
RdWorkerTake(w) ==
    /\ rd.workers[w] = IdleWorker
    /\ \A v \in Workers : v < w => rd.workers[v] # IdleWorker
    /\ rd.queue # << >>
    /\ \E h \in BOOLEAN :
          rd' = [rd EXCEPT
                   !.queue = Tail(@),
                   !.workers[w] = [src |-> Head(rd.queue).src,
                                   cyc |-> Head(rd.queue).cyc, hung |-> h]]
    /\ UNCHANGED <<ls, supVars, storeVars, serveVars, fnVars>>

\* read_data or capture_image returns, data or None (both catch their
\* exceptions): the future is done and the worker is free again.  Only the
\* futures of the current cycle are looked at.
RdTaskReturn(w) ==
    /\ rd.workers[w] # IdleWorker /\ ~rd.workers[w].hung
    /\ rd' = [rd EXCEPT
                !.workers[w] = IdleWorker,
                !.fut[rd.workers[w].src] =
                    IF rd.workers[w].cyc = rd.cycle /\ @ = "pending"
                    THEN "done" ELSE @]
    /\ UNCHANGED <<ls, supVars, storeVars, serveVars, fnVars>>

\* lidar_data = lidar_future.result(timeout=5): the value, or TimeoutError,
\* which the except of read_sensors_parallel turns into (None, None, None):
\* run logs "No sensor data received" and goes to the pacing.
RdJoinLidar ==
    /\ rd.pc = "join_lidar"
    /\ \/ /\ rd.fut.lidar # "pending"
          /\ rd' = [rd EXCEPT !.pc = "join_camera", !.timer = RESULT_TIMEOUT]
       \/ /\ rd.fut.lidar = "pending" /\ rd.timer = 0
          /\ rd' = [rd EXCEPT !.pc = "pace", !.fut.lidar = "raised"]
    /\ UNCHANGED <<ls, supVars, storeVars, serveVars, fnVars>>

\* image_data = camera_future.result(timeout=5); return timestamp, lidar_data,
\* image_data and "if timestamp:" leads to save_data.
RdJoinCamera ==
    /\ rd.pc = "join_camera"
    /\ \/ /\ rd.fut.camera # "pending"
          /\ rd' = [rd EXCEPT !.pc = "save", !.timer = 0]
       \/ /\ rd.fut.camera = "pending" /\ rd.timer = 0
          /\ rd' = [rd EXCEPT !.pc = "pace", !.fut.camera = "raised"]
    /\ UNCHANGED <<ls, supVars, storeVars, serveVars, fnVars>>

\* A mutant: the except of the loop body ends the loop.
RdSaveRaiseEnds ==
    /\ rd.pc = "save"
    /\ \/ rd' = [rd EXCEPT !.pc = "pace", !.saved = rd.cycle]
       \/ rd' = [rd EXCEPT !.pc = "cleanup_lidar", !.excs = rd.cycle]
    /\ UNCHANGED <<ls, supVars, storeVars, serveVars, fnVars>>

\* self.save_data(...) returns True or False, both only logged; or the body of
\* the try raises: except Exception: logger.error(...);
\* shutdown_event.wait(config.ERROR_RETRY_INTERVAL).
RdSave ==
    /\ rd.pc = "save"
    /\ \/ rd' = [rd EXCEPT !.pc = "pace", !.saved = rd.cycle]
       \/ rd' = [rd EXCEPT !.pc = "retry", !.timer = ERROR_RETRY_INTERVAL,
                           !.excs = rd.cycle]
    /\ UNCHANGED <<ls, supVars, storeVars, serveVars, fnVars>>

Max(a, b) == IF a >= b THEN a ELSE b

\* A mutant: the interval is slept in full after every cycle.
RdPaceEndToStart ==
    /\ rd.pc = "pace"
    /\ rd' = [rd EXCEPT !.pc = "sleep", !.timer = READING_INTERVAL,
                        !.sleep_time = READING_INTERVAL]
    /\ UNCHANGED <<ls, supVars, storeVars, serveVars, fnVars>>

\* elapsed = time.time() - start_time;
\* sleep_time = max(0, config.READING_INTERVAL - elapsed);
\* if sleep_time > 0: shutdown_event.wait(sleep_time)
RdPace ==
    /\ rd.pc = "pace"
    /\ LET sleep_time == Max(0, READING_INTERVAL - rd.elapsed)
       IN  rd' = IF sleep_time > 0
                 THEN [rd EXCEPT !.pc = "sleep", !.timer = sleep_time,
                                 !.sleep_time = sleep_time]
                 ELSE [rd EXCEPT !.pc = "test", !.timer = 0,
                                 !.sleep_time = sleep_time]
    /\ UNCHANGED <<ls, supVars, storeVars, serveVars, fnVars>>

\* A mutant: time.sleep(sleep_time) in place of shutdown_event.wait(sleep_time),
\* and a full timeout for each wait.
RdSleepDeaf ==
    /\ rd.pc = "sleep"
    /\ rd.timer = 0
    /\ rd' = [rd EXCEPT !.pc = "submit", !.timer = 0]
    /\ UNCHANGED <<ls, supVars, storeVars, serveVars, fnVars>>

\* shutdown_event.wait(sleep_time) returns: the event is set, or the time is up.
RdSleep ==
    /\ rd.pc = "sleep"
    /\ shutdown \/ rd.timer = 0
    /\ rd' = [rd EXCEPT !.pc = "test", !.timer = 0]
    /\ UNCHANGED <<ls, supVars, storeVars, serveVars, fnVars>>

\* shutdown_event.wait(config.ERROR_RETRY_INTERVAL) returns.
RdRetry ==
    /\ rd.pc = "retry"
    /\ shutdown \/ rd.timer = 0
    /\ rd' = [rd EXCEPT !.pc = "test", !.timer = 0]
    /\ UNCHANGED <<ls, supVars, storeVars, serveVars, fnVars>>

\* reader.cleanup(): self.lidar_reader.cleanup(): if self.is_ranging_started
\* and self.sensor: stop_ranging(); is_ranging_started = False; an exception of
\* stop_ranging() is caught and logged.
RdCleanupLidar ==
    /\ rd.pc = "cleanup_lidar"
    /\ IF rd.is_ranging_started
       THEN \/ rd' = [rd EXCEPT !.pc = "cleanup_pool", !.stops = @ + 1,
                                !.is_ranging_started = FALSE]
            \/ rd' = [rd EXCEPT !.pc = "cleanup_pool", !.stops = @ + 1]
       ELSE rd' = [rd EXCEPT !.pc = "cleanup_pool"]
    /\ UNCHANGED <<ls, supVars, storeVars, serveVars, fnVars>>

\* The keywords Executor.shutdown accepts (wait=True, *, cancel_futures=False)
\* and the keywords cleanup passes to it.
ShutdownSignature == {"wait", "cancel_futures"}
ShutdownCallKeywords == {"wait", "timeout"}

\* self.executor.shutdown(wait=True, timeout=5): a keyword the function does
\* not have is a TypeError at the call; the except of run_reader_process
\* prints it and raises it again, and the process ends with exit code 1.  With
\* accepted keywords the call waits for the running work items, with no limit.
RdCleanupPool ==
    /\ rd.pc = "cleanup_pool"
    /\ IF ShutdownCallKeywords \subseteq ShutdownSignature
       THEN /\ \A w \in Workers : rd.workers[w] = IdleWorker
            /\ rd.queue = << >>
            /\ rd' = [rd EXCEPT !.pc = "exited", !.exit = 0]
       ELSE rd' = [rd EXCEPT !.pc = "exited", !.exit = 1]
    /\ UNCHANGED <<ls, supVars, storeVars, serveVars, fnVars>>

(***************************************************************************)
(* run_listener_process: SensorListener.run and the serve_forever thread   *)
(***************************************************************************)
\* The server is created and bound, server_thread.start().
LsStart ==
    /\ ls.pc = "init"
    /\ ls' = [ls EXCEPT !.pc = "test", !.serving = TRUE]
    /\ UNCHANGED <<rd, supVars, storeVars, serveVars, fnVars>>

\* while not shutdown_event.is_set():
LsTest ==
    /\ ls.pc = "test"
    /\ ls' = IF shutdown THEN [ls EXCEPT !.pc = "shutdown"]
             ELSE [ls EXCEPT !.pc = "wait", !.timer = LISTENER_WAIT]
    /\ UNCHANGED <<rd, supVars, storeVars, serveVars, fnVars>>

\* shutdown_event.wait(1) returns: the event is set, or one second has passed.
LsWait ==
    /\ ls.pc = "wait"
    /\ shutdown \/ ls.timer = 0
    /\ ls' = [ls EXCEPT !.pc = "test", !.timer = 0]
    /\ UNCHANGED <<rd, supVars, storeVars, serveVars, fnVars>>

\* self.server.shutdown(): the request to stop is set and the caller waits
\* for serve_forever to leave its loop.
LsShutdownServer ==
    /\ ls.pc = "shutdown"
    /\ ls' = [ls EXCEPT !.pc = "await_loop", !.stop_req = TRUE,
                        !.timer = POLL_INTERVAL]
    /\ UNCHANGED <<rd, supVars, storeVars, serveVars, fnVars>>

\* serve_forever: select(poll_interval) returns with a connection; the request
\* to stop is tested before the connection is accepted and given a handler
\* thread.  (accepted: the connections accepted so far, modulo 2.)
LsAccept ==
    /\ ls.serving /\ ~ls.stop_req
    /\ ls' = [ls EXCEPT !.accepted = (@ + 1) % 2]
    /\ UNCHANGED <<rd, supVars, storeVars, serveVars, fnVars>>

\* serve_forever: the loop is left when the request to stop is set, at the
\* latest when select(poll_interval) returns, after half a second.
LsPoll ==
    /\ ls.serving /\ ls.stop_req
    /\ ls' = [ls EXCEPT !.serving = FALSE, !.timer = 0]
    /\ UNCHANGED <<rd, supVars, storeVars, serveVars, fnVars>>

\* server.shutdown() returns, server_thread.join(timeout=5), break;
\* listener.cleanup() and the process is over.
LsStopped ==
    /\ ls.pc = "await_loop" /\ ~ls.serving
    /\ ls' = [ls EXCEPT !.pc = "exited"]
    /\ UNCHANGED <<rd, supVars, storeVars, serveVars, fnVars>>

(***************************************************************************)
(* Half a second passes: the threads that do not wait have acted, a free   *)
(* worker has taken the work item that waits for it.                       *)
(***************************************************************************)
ReaderWaits ==
    \/ rd.pc = "join_lidar" /\ rd.fut.lidar = "pending" /\ rd.timer > 0
    \/ rd.pc = "join_camera" /\ rd.fut.camera = "pending" /\ rd.timer > 0
    \/ rd.pc \in {"sleep", "retry"} /\ ~shutdown /\ rd.timer > 0
    \/ rd.pc = "test" /\ ~shutdown /\ rd.cycle = MaxCycles
    \/ rd.pc = "exited"

PoolSettled ==
    rd.queue = << >> \/ \A w \in Workers : rd.workers[w] # IdleWorker

ListenerWaits ==
    \/ ls.pc = "wait" /\ ~shutdown /\ ls.timer > 0
    \/ ls.pc = "await_loop" /\ ls.serving /\ ls.timer > 0
    \/ ls.pc = "exited"

Down(n) == IF n > 0 THEN n - 1 ELSE 0

HalfSecond ==
    /\ ReaderWaits /\ PoolSettled /\ ListenerWaits
    /\ rd.timer > 0 \/ ls.timer > 0
    /\ rd' = [rd EXCEPT
                !.timer = Down(@),
                !.elapsed = IF @ < READING_INTERVAL THEN @ + 1 ELSE @,
                !.since = IF shutdown /\ rd.pc \in ReaderLoopPcs /\ @ < MaxSince
                          THEN @ + 1 ELSE @]
    /\ ls' = [ls EXCEPT
                !.timer = Down(@),
                !.since = IF shutdown /\ ls.serving
                             /\ @ <= LISTENER_WAIT
                          THEN @ + 1 ELSE @]
    /\ UNCHANGED <<supVars, storeVars, serveVars, fnVars>>

(***************************************************************************)
(* LiDARReader.read_data on given ranging data (SpecTransform): the 64     *)
(* distances of the sensor are reshaped to 8 x 8 and filtered.             *)
(***************************************************************************)
LIDAR_MIN_DISTANCE == 30
LIDAR_MAX_DISTANCE == 4000
GRID == 8

Rows == 0 .. GRID - 1

\* Raw distances around the two thresholds, zero and a negative value.
RawValues ==
    {-1, 0, LIDAR_MIN_DISTANCE - 1, LIDAR_MIN_DISTANCE, LIDAR_MIN_DISTANCE + 1,
     LIDAR_MAX_DISTANCE - 1, LIDAR_MAX_DISTANCE, LIDAR_MAX_DISTANCE + 1}

\* data.distance_mm: one value everywhere but for one cell.
RangingData ==
    { [k \in 1 .. GRID * GRID |-> IF k = p THEN v ELSE b] :
        p \in 1 .. GRID * GRID, v \in RawValues, b \in RawValues }

\* np.array(data.distance_mm).reshape(8, 8): row-major.
Reshape(flat) == [row \in Rows |-> [col \in Rows |-> flat[row * GRID + col + 1]]]

\* A mutant: the thresholds themselves are valid distances.
InvalidDistanceStrict(d) ==
    d < LIDAR_MIN_DISTANCE \/ d > LIDAR_MAX_DISTANCE \/ d = 0

\* d <= config.LIDAR_MIN_DISTANCE or d >= config.LIDAR_MAX_DISTANCE or d == 0
InvalidDistance(d) ==
    d <= LIDAR_MIN_DISTANCE \/ d >= LIDAR_MAX_DISTANCE \/ d = 0

\* processed_distances = np.copy(distances); for row, for col: the cell is set
\* to -1 when its distance is not valid.
Filter(distances) ==
    [row \in Rows |-> [col \in Rows |->
        IF InvalidDistance(distances[row][col]) THEN -1
        ELSE distances[row][col]]]

TransformInit ==
    \E flat \in RangingData :
        fn = [op |-> "read_data", pc |-> "get_ranging_data", distance_mm |-> flat,
              distances |-> << >>, processed |-> << >>]

TransformReshape ==
    /\ fn.op = "read_data" /\ fn.pc = "get_ranging_data"
    /\ fn' = [fn EXCEPT !.pc = "filter", !.distances = Reshape(fn.distance_mm)]
    /\ UNCHANGED <<storeVars, serveVars, supVars, runVars>>

TransformFilter ==
    /\ fn.op = "read_data" /\ fn.pc = "filter"
    /\ fn' = [fn EXCEPT !.pc = "returned", !.processed = Filter(fn.distances)]
    /\ UNCHANGED <<storeVars, serveVars, supVars, runVars>>

(***************************************************************************)
(* CameraReader.capture_image, called again and again (SpecCapture).  Time *)
(* is counted in tenths of a second.                                       *)
(***************************************************************************)
MIN_CAPTURE_INTERVAL == 3
PKILL_PAUSE == 1
COMMUNICATE_TIMEOUT == 30
MaxCaptures == 3

\* The time a libcamera-still that ends in time may take.
CaptureDurations == 0 .. COMMUNICATE_TIMEOUT - 1

\* CameraReader.__init__: last_capture_time = 0; the clock is far from the
\* epoch.  issued and prev_end note when the last capture command was issued
\* and when the last acquisition ended (-1: there was none).
CaptureIdle ==
    [op |-> "capture_image", pc |-> "idle", now |-> MIN_CAPTURE_INTERVAL,
     last_capture_time |-> 0, n |-> 0, issued |-> -1, prev_end |-> -1,
     prev |-> "none", ret |-> "none"]

\* capture_image() is called, at once or some time after the call before.
CaptureCall ==
    /\ fn.op = "capture_image" /\ fn.pc = "idle" /\ fn.n < MaxCaptures
    /\ \E d \in 0 .. MIN_CAPTURE_INTERVAL :
          fn' = [fn EXCEPT !.pc = "spacing", !.n = @ + 1, !.now = @ + d]
    /\ UNCHANGED <<storeVars, serveVars, supVars, runVars>>

\* time_since_last = current_time - self.last_capture_time;
\* if time_since_last < self.min_capture_interval: time.sleep(wait_time)
CaptureSpacing ==
    /\ fn.op = "capture_image" /\ fn.pc = "spacing"
    /\ LET time_since_last == fn.now - fn.last_capture_time
           wait_time == MIN_CAPTURE_INTERVAL - time_since_last
       IN  fn' = IF time_since_last < MIN_CAPTURE_INTERVAL
                 THEN [fn EXCEPT !.pc = "pkill", !.now = @ + wait_time]
                 ELSE [fn EXCEPT !.pc = "pkill"]
    /\ UNCHANGED <<storeVars, serveVars, supVars, runVars>>

\* subprocess.run(["pkill", ...], timeout=1); time.sleep(0.1); an exception of
\* run skips the pause.
CapturePkill ==
    /\ fn.op = "capture_image" /\ fn.pc = "pkill"
    /\ \/ fn' = [fn EXCEPT !.pc = "popen", !.now = @ + PKILL_PAUSE]
       \/ fn' = [fn EXCEPT !.pc = "popen"]
    /\ UNCHANGED <<storeVars, serveVars, supVars, runVars>>

\* process = subprocess.Popen(cmd, ...): the capture command is issued; or
\* Popen raises and the outer except returns None.
CapturePopen ==
    /\ fn.op = "capture_image" /\ fn.pc = "popen"
    /\ \/ fn' = [fn EXCEPT !.pc = "communicate", !.issued = fn.now]
       \/ fn' = [fn EXCEPT !.pc = "idle", !.ret = "None"]
    /\ UNCHANGED <<storeVars, serveVars, supVars, runVars>>

\* stdout, stderr = process.communicate(timeout=3);
\* self.last_capture_time = time.time(); the image, or None for a return code
\* other than 0 or no output.  Or TimeoutExpired: process.kill(), return None,
\* and last_capture_time is left as it was.
CaptureCommunicate ==
    /\ fn.op = "capture_image" /\ fn.pc = "communicate"
    /\ \/ \E d \in CaptureDurations, ret \in {"data", "None"} :
             fn' = [fn EXCEPT !.pc = "idle", !.now = @ + d,
                              !.last_capture_time = fn.now + d,
                              !.prev_end = fn.now + d,
                              !.prev = "returned", !.ret = ret]
       \/ fn' = [fn EXCEPT !.pc = "idle", !.now = @ + COMMUNICATE_TIMEOUT,
                           !.prev_end = fn.now + COMMUNICATE_TIMEOUT,
                           !.prev = "timeout", !.ret = "None"]
    /\ UNCHANGED <<storeVars, serveVars, supVars, runVars>>

(***************************************************************************)
(* SensorListener.run from its first line to the end of the process        *)
(* (SpecListen): the attempts to create the server, the serve_forever      *)
(* thread, the handler threads and the end of run_listener_process.  Time  *)
(* is counted in seconds.                                                  *)
(***************************************************************************)
MAX_RETRIES == 3
RETRY_DELAY == 2
JOIN_TIMEOUT == 5
SOCKET_TIMEOUT == 5
EADDRINUSE == 98
EACCES == 13
MaxHandlers == 1

\* A handler thread makes one recv and at most five sendall, each of them
\* bounded by settimeout(5.0).
HANDLER_LIMIT == 6 * SOCKET_TIMEOUT

HandlerThreads == 1 .. MaxHandlers
NoThread == -1

\* bound: the listening socket exists and is bound; serving: the
\* serve_forever loop runs; handlers: thread -> the seconds it has run.
ListenIdle ==
    [pc |-> "attempt", attempt |-> 0, timer |-> 0, errno |-> 0, tries |-> 0,
     bound |-> FALSE, serving |-> FALSE, stop_req |-> FALSE,
     handlers |-> [h \in HandlerThreads |-> NoThread],
     since |-> 0, exit |-> -1]

\* signal_handler: shutdown_event.set()
LnSignal ==
    /\ ~shutdown
    /\ shutdown' = TRUE
    /\ UNCHANGED <<ls, rd, supRest, storeVars, serveVars, fnVars>>

\* A mutant: every OSError is retried.
LnCreateRetriesAll ==
    /\ ls.pc = "attempt"
    /\ \/ ls' = [ls EXCEPT !.pc = "start", !.bound = TRUE, !.tries = @ + 1]
       \/ \E e \in {EADDRINUSE, EACCES} :
             ls' = IF ls.attempt < MAX_RETRIES - 1
                   THEN [ls EXCEPT !.pc = "delay", !.timer = RETRY_DELAY,
                                   !.errno = e, !.tries = @ + 1]
                   ELSE [ls EXCEPT !.pc = "exited", !.exit = 1,
                                   !.errno = e, !.tries = @ + 1]
    /\ UNCHANGED <<rd, supVars, storeVars, serveVars, fnVars>>

\* for attempt in range(max_retries): self._kill_port_process();
\* self.server = ThreadedTCPServer(...): the socket is bound and listens, or
\* the constructor closes it and raises OSError.  errno 98 before the last
\* attempt: time.sleep(retry_delay); continue.  Otherwise the error is raised
\* out of run and of run_listener_process: exit code 1.
LnCreate ==
    /\ ls.pc = "attempt"
    /\ \/ ls' = [ls EXCEPT !.pc = "start", !.bound = TRUE, !.tries = @ + 1]
       \/ \E e \in {EADDRINUSE, EACCES} :
             ls' = IF e = EADDRINUSE /\ ls.attempt < MAX_RETRIES - 1
                   THEN [ls EXCEPT !.pc = "delay", !.timer = RETRY_DELAY,
                                   !.errno = e, !.tries = @ + 1]
                   ELSE [ls EXCEPT !.pc = "exited", !.exit = 1,
                                   !.errno = e, !.tries = @ + 1]
    /\ UNCHANGED <<rd, supVars, storeVars, serveVars, fnVars>>

\* time.sleep(retry_delay) is over: the next attempt.
LnDelay ==
    /\ ls.pc = "delay" /\ ls.timer = 0
    /\ ls' = [ls EXCEPT !.pc = "attempt", !.attempt = @ + 1]
    /\ UNCHANGED <<rd, supVars, storeVars, serveVars, fnVars>>

\* server_thread = Thread(target=self.server.serve_forever); daemon; start()
LnStartThread ==
    /\ ls.pc = "start"
    /\ ls' = [ls EXCEPT !.pc = "test", !.serving = TRUE]
    /\ UNCHANGED <<rd, supVars, storeVars, serveVars, fnVars>>

\* while not shutdown_event.is_set(): shutdown_event.wait(1)
LnTest ==
    /\ ls.pc = "test"
    /\ ls' = IF shutdown THEN [ls EXCEPT !.pc = "shutdown_server"]
             ELSE [ls EXCEPT !.pc = "wait", !.timer = 1]
    /\ UNCHANGED <<rd, supVars, storeVars, serveVars, fnVars>>

LnWait ==
    /\ ls.pc = "wait"
    /\ shutdown \/ ls.timer = 0
    /\ ls' = [ls EXCEPT !.pc = "test", !.timer = 0]
    /\ UNCHANGED <<rd, supVars, storeVars, serveVars, fnVars>>

\* self.server.shutdown(): the request to leave serve_forever is made and
\* the call waits until the loop has left.
LnShutdownServer ==
    /\ ls.pc = "shutdown_server"
    /\ ls' = [ls EXCEPT !.pc = "await_loop", !.stop_req = TRUE]
    /\ UNCHANGED <<rd, supVars, storeVars, serveVars, fnVars>>

\* serve_forever accepts a connection: ThreadingMixIn.process_request starts
\* a thread for it (daemon_threads is False).
LnAccept(h) ==
    /\ ls.serving /\ ~ls.stop_req
    /\ ls.handlers[h] = NoThread
    /\ ls' = [ls EXCEPT !.handlers[h] = 0]
    /\ UNCHANGED <<rd, supVars, storeVars, serveVars, fnVars>>

\* serve_forever sees the request at its next poll and returns.
LnPoll ==
    /\ ls.serving /\ ls.stop_req
    /\ ls' = [ls EXCEPT !.serving = FALSE]
    /\ UNCHANGED <<rd, supVars, storeVars, serveVars, fnVars>>

\* handle returns, the connection is closed and the thread ends.
LnHandlerEnd(h) ==
    /\ ls.handlers[h] # NoThread
    /\ ls' = [ls EXCEPT !.handlers[h] = NoThread]
    /\ UNCHANGED <<rd, supVars, storeVars, serveVars, fnVars>>

\* shutdown() has returned; server_thread.join(timeout=5) joins the
\* serve_forever thread, which has ended; break; run returns and
\* listener.cleanup() logs.  Nothing closes the server (no server_close()).
LnJoin ==
    /\ ls.pc = "await_loop" /\ ~ls.serving
    /\ ls' = [ls EXCEPT !.pc = "exiting"]
    /\ UNCHANGED <<rd, supVars, storeVars, serveVars, fnVars>>

\* The target of the Process has returned: the threads that are no daemons
\* are joined (threading._shutdown), then the process ends, and with it the
\* listening socket.
LnExit ==
    /\ ls.pc = "exiting"
    /\ \A h \in HandlerThreads : ls.handlers[h] = NoThread
    /\ ls' = [ls EXCEPT !.pc = "exited", !.exit = 0, !.bound = FALSE]
    /\ UNCHANGED <<rd, supVars, storeVars, serveVars, fnVars>>

\* A second passes: the main thread waits, the serve_forever loop has seen a
\* request to stop, no handler is at the end of its time.
LnMainWaits ==
    \/ ls.pc = "delay" /\ ls.timer > 0
    \/ ls.pc = "wait" /\ ~shutdown /\ ls.timer > 0
    \/ ls.pc = "exiting" /\ \E h \in HandlerThreads : ls.handlers[h] # NoThread

LnSecond ==
    /\ LnMainWaits
    /\ ~(ls.serving /\ ls.stop_req)
    /\ \A h \in HandlerThreads : ls.handlers[h] < HANDLER_LIMIT
    /\ ls' = [ls EXCEPT
                !.timer = IF @ > 0 THEN @ - 1 ELSE 0,
                !.handlers = [h \in HandlerThreads |->
                                IF ls.handlers[h] = NoThread THEN NoThread
                                ELSE ls.handlers[h] + 1],
                !.since = IF ls.stop_req /\ @ <= JOIN_TIMEOUT THEN @ + 1 ELSE @]
    /\ UNCHANGED <<rd, supVars, storeVars, serveVars, fnVars>>

(***************************************************************************)
(* save_data of a Producer whose writes all succeed, cycle after cycle,    *)
(* against load_current_data of one reader (SpecSkew).  An artifact is     *)
(* known by the cycle that wrote it; 0 is an artifact that is not there.   *)
(***************************************************************************)
MaxVersions == 3
MaxLoads == 2

\* A mutant: save_data writes the image before the CSV.
SaveOrderImageFirst == <<"ts", "img", "csv">>

\* save_data: timestamp.txt, current.csv, current.jpg.
SaveOrder == <<"ts", "csv", "img">>

\* load_current_data: timestamp.txt, current.jpg, current.csv.
LoadOrder == <<"ts", "img", "csv">>

NoVersions == [ts |-> 0, img |-> 0, csv |-> 0]

SkewInit ==
    fn = [op |-> "save_and_load", v |-> NoVersions, cycle |-> 0, written |-> 0,
          reading |-> 0, got |-> NoVersions, ret |-> "none", loads |-> 0]

\* run: the next cycle; its save_data is entered.
SkewCycle ==
    /\ fn.op = "save_and_load"
    /\ fn.cycle = 0 \/ fn.written = Len(SaveOrder)
    /\ fn.cycle < MaxVersions
    /\ fn' = [fn EXCEPT !.cycle = @ + 1, !.written = 0]
    /\ UNCHANGED <<storeVars, serveVars, supVars, runVars>>

\* save_data: the next artifact of the cycle is renamed into place.
SkewSave ==
    /\ fn.op = "save_and_load"
    /\ fn.cycle > 0 /\ fn.written < Len(SaveOrder)
    /\ fn' = [fn EXCEPT !.v[SaveOrder[fn.written + 1]] = fn.cycle,
                        !.written = @ + 1]
    /\ UNCHANGED <<storeVars, serveVars, supVars, runVars>>

\* load_current_data(data_dir) is called.
SkewLoadCall ==
    /\ fn.op = "save_and_load"
    /\ fn.reading = 0 /\ fn.loads < MaxLoads
    /\ fn' = [fn EXCEPT !.reading = 1, !.got = NoVersions, !.ret = "none",
                        !.loads = @ + 1]
    /\ UNCHANGED <<storeVars, serveVars, supVars, runVars>>

\* The next open and read; an artifact that is not there raises and None is
\* returned; after the third read the triple is returned.
SkewLoadRead ==
    /\ fn.op = "save_and_load"
    /\ fn.reading > 0
    /\ LET a == LoadOrder[fn.reading]
       IN  fn' = IF fn.v[a] = 0
                 THEN [fn EXCEPT !.reading = 0, !.got = NoVersions,
                                 !.ret = "None"]
                 ELSE IF fn.reading = Len(LoadOrder)
                 THEN [fn EXCEPT !.reading = 0, !.got[a] = fn.v[a],
                                 !.ret = "Triple"]
                 ELSE [fn EXCEPT !.reading = @ + 1, !.got[a] = fn.v[a]]
    /\ UNCHANGED <<storeVars, serveVars, supVars, runVars>>

(***************************************************************************)
(* SpecStore                                                               *)
(***************************************************************************)
\* What the directory may hold at the start: any subset of the artifacts.
InitialContents(p) ==
    IF p = TIMESTAMP_FILE THEN {<<"1">>, <<" ">>} ELSE {<<"1">>}

InodeOf(p) ==
    CASE p = TIMESTAMP_FILE -> 1 [] p = CURRENT_IMAGE_FILE -> 2 [] OTHER -> 3

StoreInit ==
    /\ \E present \in SUBSET Artifacts :
         \E c \in [Artifacts -> Contents] :
            /\ \A p \in Artifacts : c[p] \in InitialContents(p)
            /\ files = [p \in Artifacts |->
                          IF p \in present THEN InodeOf(p) ELSE NoFile]
            /\ inodes = [i \in 1 .. MaxInodes |->
                           IF \E p \in present : InodeOf(p) = i
                           THEN c[CHOOSE p \in present : InodeOf(p) = i]
                           ELSE << >>]
    /\ nInodes = 3
    /\ calls = << >>
    /\ wr = WriterIdle
    /\ ld = [r \in Readers |-> ReaderIdle]

\* The variables of the Exchange Store at file level, at rest.
StoreQuiet ==
    /\ files = [p \in Artifacts |-> NoFile]
    /\ inodes = [i \in 1 .. MaxInodes |-> << >>]
    /\ nInodes = 3
    /\ calls = << >>
    /\ wr = WriterIdle
    /\ ld = [r \in Readers |-> ReaderIdle]

InitStore == StoreInit /\ ServeQuiet /\ SupQuiet /\ FnQuiet /\ RunQuiet

NextStore ==
    \/ SaveBegin
    \/ SaveCreateTemp
    \/ SaveWrite
    \/ SaveClose
    \/ SaveMove
    \/ SaveFail
    \/ \E r \in Readers : LoadOpen(r)
    \/ \E r \in Readers : LoadRead(r)

SpecStore == InitStore /\ [][NextStore]_vars

(***************************************************************************)
(* SpecServe                                                               *)
(***************************************************************************)
InitServe == ServeQuiet /\ StoreQuiet /\ SupQuiet /\ FnQuiet /\ RunQuiet

NextServe ==
    \/ Tick
    \/ ProdDispatch
    \/ ProdJoin
    \/ ProdSaveTs
    \/ ProdSaveCsv
    \/ ProdSaveImg
    \/ ProdSleep
    \/ \E c \in Clients : Connect(c)
    \/ \E c \in Clients : HandleRecv(c)
    \/ \E c \in Clients : HandleLoad(c)
    \/ \E c \in Clients : HandleSelect(c)
    \/ \E c \in Clients : HandleSendError(c)
    \/ \E c \in Clients : HandleSendPart(c)
    \/ \E c \in Clients : HandleSendFails(c)

SpecServe == InitServe /\ [][NextServe]_vars

(***************************************************************************)
(* SpecSup, and FairSpecSup: every thread and process that can take a step *)
(* takes one, and time passes.  Crashes and signals are never forced.      *)
(***************************************************************************)
InitSup == SupQuiet /\ StoreQuiet /\ ServeQuiet /\ FnQuiet /\ RunQuiet

MainStep ==
    \/ MainLogging
    \/ MainDirs
    \/ MainStart
    \/ MainSleep
    \/ MainWaitReader
    \/ MainWaitPort
    \/ MainStartMonitor
    \/ MainLoopExit
    \/ MainTerminate
    \/ MainJoin
    \/ MainKill

MonStep ==
    \/ MonTest
    \/ MonCheck
    \/ MonGate
    \/ MonStart
    \/ MonWait

ChildStep(p) ==
    \/ ChildEnterLoop(p)
    \/ ReaderCycle(p)
    \/ ChildLeaveLoop(p)
    \/ ChildExit(p)

NextSup ==
    \/ MainStep
    \/ MonStep
    \/ \E p \in Pids : ChildStep(p)
    \/ \E p \in Pids : Crash(p)
    \/ \E p \in Pids : SignalChild(p)
    \/ SignalSupervisor
    \/ Second

SpecSup == InitSup /\ [][NextSup]_vars

\* The Supervisor with a monitor thread whose calls can raise.
NextSupExc == NextSup \/ MonRaise

SpecSupExc == InitSup /\ [][NextSupExc]_vars

FairSpecSup ==
    /\ SpecSup
    /\ WF_vars(MainStep)
    /\ WF_vars(MonStep)
    /\ \A p \in Pids : WF_vars(ChildEnterLoop(p) \/ ChildLeaveLoop(p))
    /\ WF_vars(Second)

(***************************************************************************)
(* SpecFrame                                                               *)
(***************************************************************************)
InitFrame == FrameInit /\ StoreQuiet /\ ServeQuiet /\ SupQuiet /\ RunQuiet

NextFrame ==
    \/ SendDataHeader
    \/ SendDataImage
    \/ SendDataCsvHeader
    \/ SendDataCsv
    \/ SendDataEnd
    \/ ParseResponse

SpecFrame == InitFrame /\ [][NextFrame]_vars

(***************************************************************************)
(* The Consumer alone (SpecConn): two connections, each with the handler   *)
(* thread ThreadingMixIn gives it, over an Exchange Store that no Producer *)
(* writes.  When handle returns the server closes the connection           *)
(* (pc = "closed").                                                        *)
(***************************************************************************)
ConnClients == {"c1", "c2"}

\* The store as a Producer left it: empty, without image, or complete.
StaticStores ==
    { EmptyStore,
      [ts |-> [cyc |-> 1, val |-> StartTime], csv |-> [cyc |-> 1, kind |-> "matrix"],
       img |-> [cyc |-> 0]],
      [ts |-> [cyc |-> 1, val |-> StartTime], csv |-> [cyc |-> 1, kind |-> "matrix"],
       img |-> [cyc |-> 1]] }

InitConn ==
    /\ now = StartTime
    /\ store \in StaticStores
    /\ prod = ProducerIdle
    /\ hd = [c \in ConnClients |-> HandlerIdle]
    /\ StoreQuiet /\ SupQuiet /\ FnQuiet /\ RunQuiet

\* The steps of the thread that serves connection c.
HandlerStep(c) ==
    \/ Connect(c)
    \/ HandleRecv(c)
    \/ HandleLoad(c)
    \/ HandleSelect(c)
    \/ HandleSendError(c)
    \/ HandleSendPart(c)
    \/ HandleSendFails(c)

NextConn ==
    \/ Tick
    \/ \E c \in ConnClients : HandlerStep(c)

SpecConn == InitConn /\ [][NextConn]_vars

\* Every handler thread runs: recv and sendall return within the 5 s of
\* settimeout(5.0).
FairSpecConn == SpecConn /\ \A c \in ConnClients : WF_vars(HandlerStep(c))

\* Only the thread of connection c2 is known to run: the client of c1 may
\* keep its handler waiting at any step.
FairSpecConnOne == SpecConn /\ WF_vars(HandlerStep("c2"))

(***************************************************************************)
(* SpecRoundTrip                                                           *)
(***************************************************************************)
InitRoundTrip == RoundTripInit /\ StoreQuiet /\ ServeQuiet /\ SupQuiet /\ RunQuiet

NextRoundTrip ==
    \/ RoundTripSave
    \/ RoundTripLoad

SpecRoundTrip == InitRoundTrip /\ [][NextRoundTrip]_vars

(***************************************************************************)
(* SpecStale                                                               *)
(***************************************************************************)
InitStale ==
    /\ StaleInit
    /\ store = EmptyStore /\ prod = ProducerIdle
    /\ hd = [c \in Clients |-> HandlerIdle]
    /\ StoreQuiet /\ SupQuiet /\ RunQuiet

NextStale == StaleCall

SpecStale == InitStale /\ [][NextStale]_vars

(***************************************************************************)
(* SpecRun                                                                 *)
(***************************************************************************)
InitRun == RunQuiet /\ StoreQuiet /\ ServeQuiet /\ SupQuiet /\ FnQuiet

ReaderStep ==
    \/ RdConstruct
    \/ RdInitDir
    \/ RdInitLidar
    \/ RdTest
    \/ RdSubmit
    \/ RdJoinLidar
    \/ RdJoinCamera
    \/ RdSave
    \/ RdPace
    \/ RdSleep
    \/ RdRetry
    \/ RdCleanupLidar
    \/ RdCleanupPool

ListenerStep ==
    \/ LsStart
    \/ LsTest
    \/ LsWait
    \/ LsShutdownServer
    \/ LsAccept
    \/ LsPoll
    \/ LsStopped

NextRun ==
    \/ RunSignal
    \/ ReaderStep
    \/ \E w \in Workers : RdWorkerTake(w)
    \/ \E w \in Workers : RdTaskReturn(w)
    \/ ListenerStep
    \/ HalfSecond

SpecRun == InitRun /\ [][NextRun]_vars

(***************************************************************************)
(* SpecTransform                                                           *)
(***************************************************************************)
InitTransform ==
    TransformInit /\ StoreQuiet /\ ServeQuiet /\ SupQuiet /\ RunQuiet

NextTransform == TransformReshape \/ TransformFilter

SpecTransform == InitTransform /\ [][NextTransform]_vars

(***************************************************************************)
(* SpecCapture                                                             *)
(***************************************************************************)
InitCapture ==
    fn = CaptureIdle /\ StoreQuiet /\ ServeQuiet /\ SupQuiet /\ RunQuiet

NextCapture ==
    \/ CaptureCall
    \/ CaptureSpacing
    \/ CapturePkill
    \/ CapturePopen
    \/ CaptureCommunicate

SpecCapture == InitCapture /\ [][NextCapture]_vars

(***************************************************************************)
(* SpecListen                                                              *)
(***************************************************************************)
InitListen ==
    /\ ls = ListenIdle /\ rd = ReaderIdleProcess
    /\ StoreQuiet /\ ServeQuiet /\ SupQuiet /\ FnQuiet

NextListen ==
    \/ LnSignal
    \/ LnCreate
    \/ LnDelay
    \/ LnStartThread
    \/ LnTest
    \/ LnWait
    \/ LnShutdownServer
    \/ \E h \in HandlerThreads : LnAccept(h)
    \/ LnPoll
    \/ \E h \in HandlerThreads : LnHandlerEnd(h)
    \/ LnJoin
    \/ LnExit
    \/ LnSecond

SpecListen == InitListen /\ [][NextListen]_vars

(***************************************************************************)
(* SpecSkew                                                                *)
(***************************************************************************)
InitSkew ==
    SkewInit /\ StoreQuiet /\ ServeQuiet /\ SupQuiet /\ RunQuiet

NextSkew == SkewCycle \/ SkewSave \/ SkewLoadCall \/ SkewLoadRead

SpecSkew == InitSkew /\ [][NextSkew]_vars

(***************************************************************************)
(* C1: every content a reader has read from an artifact is a complete      *)
(* content of that artifact, the one the directory started with or the     *)
(* whole data of a save_file_atomic call on it, never a part of one.       *)
(***************************************************************************)
CompleteContents(p) ==
    InitialContents(p) \cup {calls[i].data : i \in {j \in 1 .. Len(calls) : calls[j].path = p}}

C1_ReadsAreComplete ==
    \A r \in Readers :
        /\ ld[r].rawts # Nil => ld[r].rawts \in CompleteContents(TIMESTAMP_FILE)
        /\ ld[r].img # Nil => ld[r].img \in CompleteContents(CURRENT_IMAGE_FILE)
        /\ ld[r].csv # Nil => ld[r].csv \in CompleteContents(CURRENT_CSV_FILE)

\* One reader still holds the previous image open after the rename, another
\* has read the new image.
C1_Witness ==
    /\ wr.path = CURRENT_IMAGE_FILE /\ wr.ret = "True"
    /\ \E r1, r2 \in Readers :
          /\ ld[r1].pc = "read_img"
          /\ ld[r1].fd # files[CURRENT_IMAGE_FILE]
          /\ ld[r2].img = [i \in 1 .. MaxLen |-> "1"]

(***************************************************************************)
(* C2: load_current_data returns a complete triple or None; it returns     *)
(* None whenever an artifact is missing or the timestamp does not parse.   *)
(***************************************************************************)
C2_TripleOrAbsent ==
    \A r \in Readers :
        ld[r].pc = "done" =>
            /\ ld[r].ret \in {"Triple", "None"}
            /\ ld[r].ret = "Triple" =>
                  /\ ld[r].rawts # Nil /\ ParseFloat(ld[r].rawts).ok
                  /\ ld[r].ts = ParseFloat(ld[r].rawts).value
                  /\ ld[r].img # Nil
                  /\ ld[r].csv # Nil
            /\ (\E p \in Artifacts : files[p] = NoFile) => ld[r].ret = "None"
            /\ (ld[r].rawts # Nil /\ ~ParseFloat(ld[r].rawts).ok) => ld[r].ret = "None"

\* The timestamp and the CSV are there and the image is not: absent; and a
\* timestamp that does not parse: absent.
C2_Witness ==
    \E r1, r2 \in Readers :
        /\ ld[r1].pc = "done" /\ ld[r1].ret = "None"
        /\ ld[r1].rawts # Nil /\ ParseFloat(ld[r1].rawts).ok
        /\ files[CURRENT_CSV_FILE] # NoFile
        /\ files[CURRENT_IMAGE_FILE] = NoFile
        /\ ld[r2].pc = "done" /\ ld[r2].ret = "None"
        /\ ld[r2].rawts # Nil /\ ~ParseFloat(ld[r2].rawts).ok

(***************************************************************************)
(* C3: a success response is sent only for a timestamp that was at most    *)
(* MAX_DATA_AGE old when the freshness check read the clock; a triple      *)
(* older than that gets 'ERROR: No fresh data available' and no part of a  *)
(* success response.                                                       *)
(***************************************************************************)
PastSelect(c) == hd[c].pc \in {"send_data", "send_error", "closed"}

SuccessStarted(c) ==
    \/ hd[c].resp = "success"
    \/ \E k \in 1 .. Len(hd[c].sent) : hd[c].sent[k] = SuccessParts[1]

C3_NoStaleSuccess ==
    \A c \in Clients :
        /\ SuccessStarted(c) =>
              hd[c].data = "Triple" /\ hd[c].chkNow - hd[c].ts <= MAX_DATA_AGE
        /\ (PastSelect(c) /\ hd[c].data = "Triple"
              /\ hd[c].chkNow - hd[c].ts > MAX_DATA_AGE) =>
              /\ hd[c].resp = "ERROR: No fresh data available"
              /\ hd[c].sent \in {<< >>, <<"ERROR: No fresh data available">>}

\* A complete triple whose timestamp is too old was read and refused.
C3_Witness ==
    \E c \in Clients :
        /\ hd[c].pc = "closed" /\ hd[c].data = "Triple"
        /\ hd[c].chkNow - hd[c].ts > MAX_DATA_AGE
        /\ hd[c].sent = <<"ERROR: No fresh data available">>

(***************************************************************************)
(* C4 (as claimed): whenever the Producer is outside save_data, the three  *)
(* artifacts were written by the same cycle (or none exists).              *)
(***************************************************************************)
C4_TripleSameInstant ==
    prod.pc \in {"top", "join", "sleep"} =>
        /\ store.ts.cyc = store.csv.cyc
        /\ store.csv.cyc = store.img.cyc

(***************************************************************************)
(* C10: for a GET_DATA request the handler selects 'ERROR: No data         *)
(* available' iff the loaded triple is absent, 'ERROR: No fresh data       *)
(* available' iff it is present and stale, the success response iff it is  *)
(* present and fresh; when no send fails, exactly that response is what    *)
(* the connection carries when it is closed.                               *)
(***************************************************************************)
C10_ResponseSelection ==
    \A c \in Clients :
        (hd[c].req = PROTOCOL_GET_DATA_CMD /\ PastSelect(c)) =>
            LET absent == hd[c].data = "None"
                old == hd[c].chkNow - hd[c].ts > MAX_DATA_AGE
            IN  /\ hd[c].data \in {"None", "Triple"}
                /\ hd[c].resp \in {"ERROR: No data available",
                                  "ERROR: No fresh data available", "success"}
                /\ hd[c].resp = "ERROR: No data available" <=> absent
                /\ hd[c].resp = "ERROR: No fresh data available" <=>
                      (~absent /\ old)
                /\ hd[c].resp = "success" <=> (~absent /\ ~old)
                /\ (hd[c].pc = "closed" /\ ~hd[c].sendFailed) =>
                      hd[c].sent = IF hd[c].resp = "success" THEN SuccessParts
                                   ELSE <<hd[c].resp>>

\* A fresh triple was served in full.
C10_Witness ==
    \E c \in Clients :
        /\ hd[c].pc = "closed" /\ hd[c].req = PROTOCOL_GET_DATA_CMD
        /\ hd[c].data = "Triple" /\ hd[c].sent = SuccessParts
        /\ hd[c].chkNow - hd[c].ts = MAX_DATA_AGE


(***************************************************************************)
(* C5: while no shutdown has been requested, a role whose process died is  *)
(* given a new process within one liveness-poll interval (5 s) once the    *)
(* monitor thread has made its first poll, and the new Producer writes the *)
(* Exchange Store again.  The monitor thread starts only after the         *)
(* readiness gate: a child that died before is respawned by its first poll.*)
(***************************************************************************)
Running == ~shutdown /\ main.pc # "returned"

C5_RespawnWithinPollOfMonitor ==
    Running =>
        \A r \in Roles : downFor[r] <= MONITOR_INTERVAL \/ ~mon.polled

\* The Producer crashed, the monitor gave the role a new process, and the new
\* process has written the timestamp artifact.
C5_Witness ==
    /\ Running
    /\ env.crashes > 0
    /\ ~Alive(main.h["reader"])
    /\ mon.h["reader"] # main.h["reader"]
    /\ tsWriter # NoProc
    /\ tsWriter = mon.h["reader"]

\* C5 as stated: within the interval from any point after the first start.
C5_RespawnWithinPollAlways ==
    Running => \A r \in Roles : downFor[r] <= MONITOR_INTERVAL

(***************************************************************************)
(* C6 as stated: when main() returns 0 no child process is alive, those    *)
(* the monitor respawned included.                                         *)
(***************************************************************************)
C6_NoChildSurvivesReturn ==
    (main.pc = "returned" /\ main.exit = 0) => \A p \in Pids : ~Alive(p)

(***************************************************************************)
(* C7 as stated: every Process.start() of monitor_processes happens in a   *)
(* state where the Shutdown Signal is not set.                             *)
(***************************************************************************)
C7_NoSpawnAfterShutdown ==
    [][(mon.pc = "start" /\ nProcs' # nProcs) => ~shutdown]_vars

(***************************************************************************)
(* C8 as stated: a termination signal delivered to a child alone does not  *)
(* set the Shutdown Signal: it is set only after a signal to the           *)
(* Supervisor.                                                             *)
(***************************************************************************)
C8_ChildSignalIsNoShutdown == shutdown => env.supSignal

(***************************************************************************)
(* C9: the Shutdown Signal stays set once it is set, and after it is set   *)
(* the main loop, the monitor loop and the loops of the Producer and the   *)
(* Consumer are left.                                                      *)
(***************************************************************************)
LoopsLeft ==
    /\ main.pc \in {"terminate", "join", "kill", "returned"}
    /\ mon.pc \in {"off", "done"} \/ ~MonRuns
    /\ \A p \in Pids : procs[p].st \notin {"init", "loop"}

C9_ShutdownMonotone ==
    /\ [][shutdown => shutdown']_vars
    /\ shutdown ~> LoopsLeft

\* The signal was set, the Producer had written and nothing crashed: every
\* loop was entered and is left.
C9_Witness ==
    /\ shutdown /\ env.supSignal /\ env.crashes = 0
    /\ tsWriter # NoProc
    /\ main.pc = "returned" /\ main.exit = 0
    /\ mon.pc = "done"
    /\ \A p \in Pids : procs[p].st \in {"none", "dead"}

(***************************************************************************)
(* C11 as stated: a request whose line is not the command token gets       *)
(* 'ERROR: Invalid command' and no artifact is read for it; a request is   *)
(* accepted only when its line is the command token.                       *)
(***************************************************************************)
RECURSIVE RequestLine(_)
RequestLine(b) ==
    IF b = << >> \/ Head(b) = "\n" THEN << >>
    ELSE <<Head(b)>> \o RequestLine(Tail(b))

NothingLoaded(c) ==
    hd[c].data = "none" /\ hd[c].tsc = 0 /\ hd[c].img = 0 /\ hd[c].csv = 0

C11_InvalidCommandRefused ==
    \A c \in Clients :
        (hd[c].pc = "closed" /\ hd[c].req # "timeout") =>
            LET valid == RequestLine(hd[c].raw) = <<PROTOCOL_GET_DATA_CMD>>
            IN  /\ ~valid =>
                      /\ NothingLoaded(c)
                      /\ \/ hd[c].sent = <<"ERROR: Invalid command">>
                         \/ hd[c].sent = << >> /\ hd[c].sendFailed
                /\ ~NothingLoaded(c) => valid

(***************************************************************************)
(* C12: what is sent of a success response is the sequence TIMESTAMP,      *)
(* IMAGE_SIZE, image, CSV_SIZE, CSV, END in this order, each once: a       *)
(* prefix of it while it is being sent or when a send failed, the whole of *)
(* it otherwise; the TIMESTAMP header carries the timestamp read for the   *)
(* request.                                                                *)
(***************************************************************************)
SentOfSuccess(c) ==
    IF hd[c].exc # "none" /\ hd[c].sent # << >>
          /\ hd[c].sent[Len(hd[c].sent)] = hd[c].exc
    THEN SubSeq(hd[c].sent, 1, Len(hd[c].sent) - 1)
    ELSE hd[c].sent

C12_SuccessSequence ==
    \A c \in Clients :
        hd[c].resp = "success" =>
            /\ Len(SentOfSuccess(c)) <= Len(SuccessParts)
            /\ SentOfSuccess(c) = SubSeq(SuccessParts, 1, Len(SentOfSuccess(c)))
            /\ (hd[c].pc = "closed" /\ ~hd[c].sendFailed) =>
                  hd[c].sent = SuccessParts
            /\ SentOfSuccess(c) # << >> =>
                  hd[c].sentTs = hd[c].ts /\ hd[c].data = "Triple"

\* A whole success response was sent, for a timestamp that is not the time
\* of sending.
C12_Witness ==
    \E c \in Clients :
        /\ hd[c].pc = "closed" /\ hd[c].resp = "success"
        /\ hd[c].sent = SuccessParts
        /\ hd[c].sentTs = hd[c].ts /\ hd[c].ts # now

(***************************************************************************)
(* C13 as stated: IMAGE_SIZE is the number of image bytes sent after it,   *)
(* CSV_SIZE the number of bytes of the CSV sent after it, and a client     *)
(* that cuts the payloads by these sizes recovers the image and the CSV.   *)
(***************************************************************************)
C13_SizesCountBytes ==
    (fn.op = "send_data" /\ fn.pc = "done") =>
        /\ fn.IMAGE_SIZE = Len(fn.image_data)
        /\ fn.CSV_SIZE = Len(Utf8Encode(fn.csv_data))
        /\ fn.got_image = fn.image_data
        /\ fn.parsed = "triple" /\ fn.got_csv = fn.csv_data

(***************************************************************************)
(* C14: every accepted connection is closed in the end, whatever path its  *)
(* handler takes: invalid command, no data, stale data, a whole success    *)
(* response, a receive timeout, a failure while sending; no exception      *)
(* leaves the handler.                                                     *)
(***************************************************************************)
C14_EveryPathCloses ==
    \A c \in ConnClients : (hd[c].pc = "recv") ~> (hd[c].pc = "closed")

\* One connection was closed after a receive timeout, the other after a
\* failure in the middle of a success response.
C14_Witness ==
    /\ hd["c1"].pc = "closed" /\ hd["c1"].req = "timeout"
    /\ hd["c2"].pc = "closed" /\ hd["c2"].sendFailed
    /\ hd["c2"].resp = "success" /\ Len(hd["c2"].sent) >= 2

(***************************************************************************)
(* C15: whatever another client does (an invalid request, nothing at all,  *)
(* a connection that stalls or breaks in the middle of a response), a      *)
(* client is accepted and its request is served to the end, with the       *)
(* whole response when its own sends do not fail.                          *)
(***************************************************************************)
C15_ClientsAreIndependent ==
    /\ (hd["c2"].pc = "idle") ~> (hd["c2"].pc = "recv")
    /\ (hd["c2"].pc = "recv") ~> (hd["c2"].pc = "closed")
    /\ []((hd["c2"].pc = "closed" /\ hd["c2"].req = PROTOCOL_GET_DATA_CMD
             /\ ~hd["c2"].sendFailed) =>
            hd["c2"].sent = IF hd["c2"].resp = "success" THEN SuccessParts
                            ELSE <<hd["c2"].resp>>)

\* c2 was served in full while the handler of c1 still waits for a request.
C15_Witness ==
    /\ hd["c1"].pc = "recv"
    /\ hd["c2"].pc = "closed" /\ hd["c2"].sent = SuccessParts

(***************************************************************************)
(* C16 as stated: a triple written without failure and without another     *)
(* writer is loaded as a present triple with the same image bytes, the     *)
(* same CSV text and the same timestamp.                                   *)
(***************************************************************************)
C16_RoundTrip ==
    (fn.op = "round_trip" /\ fn.pc = "done") =>
        /\ fn.ret = "triple"
        /\ fn.got_ts = fn.timestamp
        /\ fn.got_image = fn.image_data
        /\ fn.got_csv = fn.csv_data

(***************************************************************************)
(* C17: is_data_stale(t, a) is true exactly when now - t > a; at the       *)
(* boundary now - t = a the data is not stale.                             *)
(***************************************************************************)
C17_StaleIffOlder ==
    (fn.op = "is_data_stale" /\ fn.pc = "done") =>
        /\ fn.ret <=> (now - fn.timestamp > fn.max_age)
        /\ (now - fn.timestamp = fn.max_age) => ~fn.ret

\* A call at the boundary, with an age that is not zero.
C17_Witness ==
    /\ fn.op = "is_data_stale" /\ fn.pc = "done"
    /\ fn.max_age > 0 /\ now - fn.timestamp = fn.max_age /\ ~fn.ret

(***************************************************************************)
(* C18: request handling does not modify the Exchange Store, and two       *)
(* GET_DATA requests served in full over the same unchanged triple get the *)
(* same response when their freshness checks give the same verdict.  Time  *)
(* passing between two requests can turn the success response into         *)
(* 'ERROR: No fresh data available'.                                       *)
(***************************************************************************)
Served(c) ==
    hd[c].pc = "closed" /\ hd[c].req = PROTOCOL_GET_DATA_CMD /\ ~hd[c].sendFailed

FoundFresh(c) ==
    hd[c].data = "Triple" /\ hd[c].chkNow - hd[c].ts <= MAX_DATA_AGE

\* The bytes of a response: its parts, and for a success response the
\* timestamp of the header and the image and CSV that were read.
ResponseOf(c) ==
    IF hd[c].resp = "success"
    THEN <<hd[c].sent, hd[c].sentTs, hd[c].img, hd[c].csv>>
    ELSE <<hd[c].sent, 0, 0, 0>>

C18_SameVerdictSameResponse ==
    /\ [][store' = store]_vars
    /\ [](\A c, d \in ConnClients :
            (Served(c) /\ Served(d) /\ (FoundFresh(c) <=> FoundFresh(d))) =>
                ResponseOf(c) = ResponseOf(d))

\* Two success responses whose freshness checks were made at different
\* times.
C18_Witness ==
    /\ Served("c1") /\ Served("c2")
    /\ hd["c1"].sent = SuccessParts /\ hd["c2"].sent = SuccessParts
    /\ hd["c1"].chkNow < hd["c2"].chkNow

\* C18 as stated: the same response for any two requests served over the
\* unchanged triple.
C18_SameResponse ==
    \A c, d \in ConnClients :
        (Served(c) /\ Served(d)) => ResponseOf(c) = ResponseOf(d)


(***************************************************************************)
(* C19 (as claimed): when exactly one of the two acquisitions of a cycle   *)
(* exceeded its timeout or raised, the cycle still goes on to the write    *)
(* step with the cycle's timestamp and with the data of the other source.  *)
(***************************************************************************)
OneSourceRaised ==
    (prod.lidar_future = "raised") # (prod.camera_future = "raised")

C19_OneFailureIsIsolated ==
    (prod.pc # "join" /\ OneSourceRaised) =>
        /\ prod.ts # 0
        /\ prod.lidar_future # "raised" => prod.lidar = prod.lidar_future
        /\ prod.camera_future # "raised" => prod.image = prod.camera_future

(***************************************************************************)
(* C20 (as claimed, for cycles in which no write to the store failed):     *)
(* when the depth read of a cycle failed (it returned None, or its result  *)
(* timed out or raised), the cycle leaves the placeholder document of that *)
(* cycle as the matrix artifact.                                           *)
(***************************************************************************)
DepthReadFailed == prod.lidar_future \in {"None", "raised"}

C20_PlaceholderPersisted ==
    (prod.pc = "sleep" /\ prod.success /\ DepthReadFailed) =>
        store.csv = [cyc |-> prod.cycle, kind |-> "placeholder"]


(***************************************************************************)
(* C21: the loop of SensorReader.run is left only when the Shutdown Signal *)
(* is set, whatever the acquisitions and save_data did and whatever was    *)
(* raised in a cycle; after an exception in a cycle the loop waits         *)
(* ERROR_RETRY_INTERVAL (or until the signal is set) and goes back to its  *)
(* test, which starts the next cycle.                                      *)
(***************************************************************************)
C21_LoopEndsOnlyOnShutdown ==
    [][ /\ (rd.pc \in ReaderLoopPcs /\ rd'.pc \notin ReaderLoopPcs) => shutdown
        /\ (rd.pc # "retry" /\ rd'.pc = "retry") =>
               rd'.timer = ERROR_RETRY_INTERVAL
        /\ (rd.pc = "retry" /\ rd'.pc # "retry") =>
               (rd.timer = 0 \/ shutdown) /\ rd'.pc = "test" ]_vars

\* A cycle that follows a cycle in which an exception was raised.
C21_Witness ==
    /\ rd.excs > 0 /\ rd.cycle > rd.excs
    /\ rd.pc = "join_lidar" /\ ~shutdown


(***************************************************************************)
(* C22: in save_data every artifact is dealt with whatever happened to the *)
(* artifacts before it: the timestamp is written, then the CSV is          *)
(* formatted and written, then the image is written if there is one; and   *)
(* save_data returns failure exactly when a write it attempted, or the     *)
(* formatting of the CSV, failed.                                          *)
(***************************************************************************)
SaveFailures == {"failed", "unformatted"}

C22_WritesAreIndependent ==
    /\ prod.pc \in {"save_csv", "save_img"} => prod.wrote.ts \in {"ok", "failed"}
    /\ prod.pc = "save_img" => prod.wrote.csv \in {"ok", "failed", "unformatted"}
    /\ (prod.pc = "sleep" /\ prod.ts # 0) =>
          /\ prod.wrote.ts \in {"ok", "failed"}
          /\ prod.wrote.csv \in {"ok", "failed", "unformatted"}
          /\ prod.wrote.img \in {"ok", "failed", "skipped"}
          /\ (prod.wrote.img = "skipped") <=> (prod.image = "None")
          /\ prod.success <=>
                \A a \in {"ts", "csv", "img"} : prod.wrote[a] \notin SaveFailures

\* The timestamp could not be written; the CSV and the image were.
C22_Witness ==
    /\ prod.pc = "sleep" /\ ~prod.success
    /\ prod.wrote = [ts |-> "failed", csv |-> "ok", img |-> "ok"]
    /\ store.csv.cyc = prod.cycle /\ store.img.cyc = prod.cycle


(***************************************************************************)
(* C23: monitor_processes leaves its loop only at a loop test that finds   *)
(* the Shutdown Signal set; an exception raised by a check or a respawn    *)
(* leads through the wait of the handler back to the loop test.            *)
(***************************************************************************)
C23_MonitorEndsOnlyOnShutdown ==
    [][ /\ (mon.pc # "done" /\ mon'.pc = "done") => (shutdown /\ mon.pc = "test")
        /\ (mon.pc = "wait" /\ mon'.pc # "wait") => mon'.pc = "test"
        /\ (mon.pc = "test" /\ mon'.pc # "test" /\ ~shutdown) =>
               mon'.pc = "check" ]_vars

\* After an exception the monitor has completed a later poll, and a child it
\* respawned is alive.
C23_Witness ==
    /\ mon.raised /\ ~shutdown
    /\ mon.pc = "wait" /\ mon.timer = MONITOR_INTERVAL
    /\ \E r \in Roles : mon.h[r] # main.h[r] /\ Alive(mon.h[r])


(***************************************************************************)
(* C24: when wait_for_reader_data or check_network_port gives up at its    *)
(* timeout with no shutdown requested, main() goes on: the children are    *)
(* left as they are, main() does not return, the port check and then the   *)
(* start of the monitor thread follow.                                     *)
(***************************************************************************)
ReaderGateTimedOut ==
    main.pc = "wait_reader" /\ ~shutdown /\ tsWriter = NoProc /\ main.timer = 0

PortGateTimedOut ==
    main.pc = "wait_port" /\ ~shutdown /\ ~PortOpen /\ main.timer = 0

C24_ReadinessIsNoGate ==
    [][ /\ (ReaderGateTimedOut /\ main' # main) =>
              main'.pc = "wait_port" /\ main'.exit = -1 /\ procs' = procs
        /\ (PortGateTimedOut /\ main' # main) =>
              main'.pc = "start_monitor" /\ main'.exit = -1 /\ procs' = procs
        /\ (main.pc = "start_monitor" /\ main' # main) =>
              main'.pc = "loop" /\ mon'.pc = "test" /\ procs' = procs ]_vars

\* Both gates timed out: the monitor runs, no shutdown was requested, and the
\* two children main() started are alive and still initialising.
C24_Witness ==
    /\ mon.pc \notin {"off", "done"} /\ main.pc = "loop" /\ ~shutdown
    /\ tsWriter = NoProc
    /\ \A r \in Roles : Alive(main.h[r]) /\ procs[main.h[r]].st = "init"


(***************************************************************************)
(* C25: when the data directory or the log directory cannot be created the *)
(* Supervisor ends with exit code 1 and has started no child process; when *)
(* it ends after the directories were there, it is after a shutdown and    *)
(* with exit code 0.                                                       *)
(***************************************************************************)
C25_ExitCodes ==
    /\ main.dirs \in {"data_failed", "log_failed"} =>
          main.pc = "returned" /\ main.exit = 1 /\ nProcs = 0
    /\ nProcs > 0 => main.dirs = "ok"
    /\ (main.pc = "returned" /\ main.dirs = "ok") => main.exit = 0 /\ shutdown
    /\ main.pc # "returned" => main.exit = -1

\* main() returned 1 because the data directory could not be created.
C25_Witness ==
    main.pc = "returned" /\ main.exit = 1 /\ main.dirs = "data_failed"


(***************************************************************************)
(* C26: in the matrix read_data returns, the cell at (row, col) is -1 when *)
(* the raw distance of that cell is 0, at most LIDAR_MIN_DISTANCE or at    *)
(* least LIDAR_MAX_DISTANCE, and is the raw distance otherwise; the raw    *)
(* distance of cell (row, col) is the one at place row * 8 + col of the    *)
(* ranging data, whatever the other cells hold.                            *)
(***************************************************************************)
RawAt(row, col) == fn.distance_mm[row * GRID + col + 1]

C27_ShutdownObservedWithinACycle ==
    /\ [](rd.since <= 2 * RESULT_TIMEOUT)
    /\ [](ls.since <= LISTENER_WAIT)
    /\ [][ /\ (rd.pc # "submit" /\ rd'.pc = "submit") =>
                 (rd.pc = "test" /\ ~shutdown)
           /\ ls'.accepted # ls.accepted =>
                 (~ls.stop_req /\ ls.since <= LISTENER_WAIT) ]_vars

\* The signal was set while a cycle waited for its results; the loop was left
\* more than one cycle period later, and the Consumer is over.
C27_Witness ==
    /\ shutdown /\ rd.pc = "cleanup_lidar"
    /\ rd.since = 2 * RESULT_TIMEOUT
    /\ ls.pc = "exited"

(***************************************************************************)
(* C27 as stated: the Producer loop is left within one cycle period        *)
(* (READING_INTERVAL) of the setting of the Shutdown Signal, the Consumer  *)
(* within one wait.                                                        *)
(***************************************************************************)
C27_ShutdownObservedWithinAPeriod ==
    /\ rd.since <= READING_INTERVAL
    /\ ls.since <= LISTENER_WAIT


(***************************************************************************)
(* C28: a depth read that never returns does not keep the image capture of *)
(* the same cycle and of every later cycle from being started and          *)
(* completed, the pool having two workers.  Stated over the pool: when the *)
(* waits of a cycle are over and the only calls still running in the pool  *)
(* are depth reads that never return, and every free worker has taken the  *)
(* work that waited for it, the image capture of that cycle is not still   *)
(* in the queue of the pool.  The code does not keep that: each depth read *)
(* that hangs keeps its worker for good, the depth read is submitted first *)
(* in every cycle, and the second one that hangs takes the last worker.    *)
(***************************************************************************)
OnlyDepthReadsHang ==
    \A w \in Workers :
        \/ rd.workers[w] = IdleWorker
        \/ rd.workers[w].src = "lidar" /\ rd.workers[w].hung

CaptureWaitsForAWorker ==
    \E i \in 1 .. Len(rd.queue) :
        rd.queue[i].src = "camera" /\ rd.queue[i].cyc = rd.cycle

C28_HungDepthReadLeavesCaptureFree ==
    (rd.pc \in {"save", "pace"} /\ OnlyDepthReadsHang /\ PoolSettled)
        => ~CaptureWaitsForAWorker

(***************************************************************************)
(* C29: the teardown of the Producer completes normally: after the loop    *)
(* stopped, cleanup stops the ranging of the depth sensor, waits for the   *)
(* work in the pool for a bounded time and returns without raising, and    *)
(* the process ends with a normal exit.  Stated over the process: a        *)
(* Producer that was initialised and has ended, has ended with exit code   *)
(* 0.  The code does not keep that: Executor.shutdown has no keyword       *)
(* timeout, the call in cleanup raises TypeError and the process ends with *)
(* exit code 1.                                                            *)
(***************************************************************************)
C29_TeardownExitsNormally ==
    (rd.pc = "exited" /\ rd.init_ok) => rd.exit = 0

(***************************************************************************)
(* C30: the Producer goes through Uninitialized, Initializing, Running and *)
(* Stopped in this order only.  The loop is run only after initialize      *)
(* returned success; initialize returns success whether the depth sensor   *)
(* could be initialised or not, and the loop is entered; when the data     *)
(* directory cannot be created the loop is never entered; and in both      *)
(* cases the process ends only through the two steps of cleanup.           *)
(***************************************************************************)
ReaderPhase(pc) ==
    CASE pc = "uninit" -> 0
      [] pc \in {"init_dir", "init_lidar"} -> 1
      [] pc \in ReaderLoopPcs -> 2
      [] OTHER -> 3

C30_ProducerStateMachine ==
    /\ [](rd.pc \in ReaderLoopPcs => rd.init_ok)
    /\ [](~rd.init_ok => rd.cycle = 0 /\ rd.saved = 0)
    /\ [][ /\ ReaderPhase(rd'.pc) >= ReaderPhase(rd.pc)
           /\ ReaderPhase(rd'.pc) = 2 => ReaderPhase(rd.pc) \in {1, 2}
           /\ (rd.pc = "init_lidar" /\ rd'.pc # rd.pc) =>
                  (rd'.pc = "test" /\ rd'.init_ok)
           /\ (rd.pc = "init_dir" /\ rd'.pc # rd.pc) =>
                  \/ rd'.pc = "init_lidar"
                  \/ rd'.pc = "cleanup_lidar" /\ ~rd'.init_ok
           /\ (ReaderPhase(rd.pc) = 2 /\ ReaderPhase(rd'.pc) = 3) =>
                  rd'.pc = "cleanup_lidar"
           /\ (rd.pc = "cleanup_lidar" /\ rd'.pc # rd.pc) =>
                  rd'.pc = "cleanup_pool"
           /\ (rd.pc # "exited" /\ rd'.pc = "exited") =>
                  rd.pc \in {"uninit", "cleanup_pool"} ]_vars

\* The depth sensor could not be initialised; the Producer has run a cycle
\* that was saved, left the loop and gone through cleanup.
C30_Witness ==
    /\ rd.pc = "exited" /\ rd.init_ok /\ ~rd.is_initialized
    /\ rd.saved > 0

C32_MinimumCaptureSpacing ==
    (fn.op = "capture_image" /\ fn.pc = "communicate" /\ fn.prev_end >= 0)
        => fn.issued - fn.prev_end >= MIN_CAPTURE_INTERVAL

(***************************************************************************)
(* C35: at most one response is sent on a connection: what has been sent   *)
(* is the success response or a beginning of it, or one error line and     *)
(* nothing else; an error line never follows a part of a success response. *)
(* The code does not keep that: a sendall of send_data that fails is       *)
(* answered by send_error on the same connection.                          *)
(***************************************************************************)
IsPrefix(p, q) ==
    /\ Len(p) <= Len(q)
    /\ \A i \in 1 .. Len(p) : p[i] = q[i]

ErrorLines ==
    {"ERROR: Invalid command", "ERROR: No data available",
     "ERROR: No fresh data available", "ERROR: codec can't decode",
     "ERROR: Failed to send data"}

C35_AtMostOneResponse ==
    \A c \in DOMAIN hd :
        \/ IsPrefix(hd[c].sent, SuccessParts)
        \/ Len(hd[c].sent) = 1 /\ hd[c].sent[1] \in ErrorLines

(***************************************************************************)
(* C33: after the Shutdown Signal the Consumer stops accepting, gives the  *)
(* handlers that run a bounded time, and then closes the listening socket  *)
(* whether handlers still run or not.  Stated over the process: more than  *)
(* JOIN_TIMEOUT after the server was told to stop, the listening socket is *)
(* closed.  The code does not keep that: the join with a timeout is that   *)
(* of the serve_forever thread, nothing closes the server, and the socket  *)
(* lives until the process ends, which is after the last handler thread.   *)
(***************************************************************************)
C33_SocketClosedAfterGrace ==
    ls.since > JOIN_TIMEOUT => ~ls.bound

(***************************************************************************)
(* C38: run makes at most MAX_RETRIES attempts to create the server.  An   *)
(* attempt that fails with 'address already in use' and is not the last    *)
(* one is followed by the delay and the next attempt; a failure of the     *)
(* last attempt, or any other error, ends run with the error.  The         *)
(* serve_forever loop runs only over a bound socket.                       *)
(***************************************************************************)
C38_BoundedBindRetry ==
    /\ [](ls.tries <= MAX_RETRIES /\ ls.attempt < MAX_RETRIES)
    /\ [](ls.serving => ls.bound)
    /\ [](ls.pc \in {"start", "test", "wait", "shutdown_server"} => ls.bound)
    /\ [][ /\ (ls.pc = "attempt" /\ ls'.pc = "delay") =>
                 /\ ls'.errno = EADDRINUSE /\ ls.attempt + 1 < MAX_RETRIES
                 /\ ls'.timer = RETRY_DELAY /\ ~ls'.bound
           /\ (ls.pc = "attempt" /\ ls'.pc = "exited") =>
                 /\ ls'.exit = 1 /\ ~ls'.bound
                 /\ ls'.errno # EADDRINUSE \/ ls.attempt + 1 = MAX_RETRIES
           /\ ls'.attempt # ls.attempt =>
                 /\ ls.pc = "delay" /\ ls.timer = 0
                 /\ ls'.attempt = ls.attempt + 1 /\ ls'.pc = "attempt"
           /\ ls'.tries # ls.tries =>
                 (ls.pc = "attempt" /\ ls'.tries = ls.attempt + 1) ]_vars

\* The address was in use at all three attempts, and run has ended with the
\* error of the third.
C38_Witness ==
    /\ ls.pc = "exited" /\ ls.exit = 1 /\ ls.tries = MAX_RETRIES
    /\ ls.errno = EADDRINUSE /\ ~ls.bound

(***************************************************************************)
(* C37: a call of save_file_atomic that fails, at whatever step, returns   *)
(* False, leaves the final artifact as it was, and removes the temporary   *)
(* file it created.  The code does not keep the last part: a failure       *)
(* inside the with block comes before temp_path is bound, and the          *)
(* temporary file stays in the directory with what was written to it.      *)
(***************************************************************************)
C37_FailedWriteLeavesNoTemp ==
    (wr.pc = "done" /\ wr.ret = "False" /\ wr.temp # NoFile) =>
        /\ files[wr.path] # wr.temp
        /\ inodes[wr.temp] = << >>

(***************************************************************************)
(* C36: in every state of the Supervisor, whatever children died, were     *)
(* started again or were told to stop, at most one process of each role    *)
(* that the Supervisor started is alive.                                   *)
(***************************************************************************)
LiveProcesses(r) == {p \in Pids : procs[p].role = r /\ Alive(p)}

C36_OneLiveProcessPerRole ==
    \A r \in Roles : Cardinality(LiveProcesses(r)) <= 1

\* A child died and the monitor started its role again; the Shutdown Signal
\* is set and the processes of both roles are alive.
C36_Witness ==
    /\ shutdown /\ env.crashes > 0
    /\ \E p \in Pids : p > Cardinality(Roles) /\ Alive(p)
    /\ \A r \in Roles : Cardinality(LiveProcesses(r)) = 1

(***************************************************************************)
(* C34: with a Producer whose every cycle writes the timestamp, the CSV    *)
(* and the image, and a reader that reads the timestamp, the image and the *)
(* CSV, a triple that load_current_data returns has an image at most one   *)
(* cycle older than its timestamp and a CSV that is not older than its     *)
(* image, at every interleaving.                                           *)
(***************************************************************************)
C34_BoundedVersionSkew ==
    (fn.op = "save_and_load" /\ fn.ret = "Triple") =>
        /\ fn.got.img >= fn.got.ts - 1
        /\ fn.got.csv >= fn.got.img

\* The timestamp of the third cycle was read, then the image of the second,
\* which the third had not written yet, then the CSV of the third.
C34_Witness ==
    /\ fn.op = "save_and_load" /\ fn.ret = "Triple"
    /\ fn.got = [ts |-> 3, img |-> 2, csv |-> 3]
=============================================================================
